---- MODULE Spec2Model ----
(***************************************************************************)
(* Model of pycnbi/decoder/decoder.py: the online decoder BCIDecoder (the  *)
(* rolling PSD / timestamp buffer of get_prob) and BCIDecoderDaemon (the    *)
(* worker process, its shared memory and the reader-facing operations).     *)
(*                                                                         *)
(* Time is counted in ticks of 0.1 s.  A feature frame and a probability   *)
(* vector are identified by the cycle that computed them (a tag), so that  *)
(* "which write does a reader see" can be stated.                          *)
(*                                                                         *)
(* Specifications: SpecDecoder (the in-process decoder's buffer), Spec and *)
(* FairSpec (the daemon), SpecSlot (the daemon with the probability slot   *)
(* written and read entry by entry under the array's lock), SpecMock (the  *)
(* numbers of the mock decoder) and SpecLoad (BCIDecoder.__init__ on a     *)
(* model file and a stream).                                               *)
(***************************************************************************)
EXTENDS Integers, Sequences, FiniteSets, TLC

(***************************************************************************)
(* Bounds of the model.                                                    *)
(***************************************************************************)
\* the number of windows the stream delivers before it stays silent
MaxWindows == 5
\* the largest leading timestamp of a window, in ticks
MaxTime == 24

\* windows the stream delivers to the daemon's workers before it stays silent
DaemonWindows == 2
\* tags of a mock worker's cycles are counted up to this number, then repeat it
MaxCycles == 3
\* how many times the daemon allocates its shared state (1 + full stops)
MaxGen == 2
\* entries of the flattened feature frame (psd_size)
PsdSize == 2
\* random.uniform(0.0, 1.0) draws one of 0/MockGrid, ..., (MockGrid-1)/MockGrid
MockGrid == 40
\* writes of the probability slot made after the running flag was cleared are
\* counted up to this number
MaxLate == 2

\* the literal 1.0 (seconds) of decoder.py line 223, in ticks of 0.1 s
OneSecond == 10

\* configured buffer_size values, in ticks: 0.5 s, 1.0 s (the default), 2.0 s
BufferSecs == {5, 10, 20}
\* by how much the leading timestamp of the window moves between two cycles
\* (0: the stream stalled and the same window is read again)
TsSteps == {0, 3, 6, 12}
\* the same for the windows a daemon's worker reads
DaemonTsSteps == {0, 6}
\* buffer_size values a daemon is constructed with
DaemonBufferSecs == {10}
\* len(self.labels) of a daemon: the model's classes, or len(fake_dirs)
LabelCounts == {2, 3}
\* len(fake_dirs) of the mock daemons whose decoder is studied on its own
MockLabelCounts == {2, 3, 4}
\* the generations of shared state: reset() allocates the next one
Gens == 1..MaxGen

VARIABLES
    buffer_sec,   \* BCIDecoder.buffer_sec / BCIDecoderDaemon.buffer_sec
    streamTs,     \* leading timestamp ts[0] of the stream's latest window
    streamLeft,   \* windows the stream will still deliver
    dec,          \* the in-process BCIDecoder: [psd_buffer, ts_buffer, cycles]
    fake,         \* BCIDecoderDaemon.fake
    nlabels,      \* len(BCIDecoderDaemon.labels)
    gen,          \* which allocation self.probs, self.pread, ... refer to
    probs,        \* probs[g]: the mp.Array probability slot
    pread,        \* pread[g]: the mp.Value "read" flag (1 read, 0 unread)
    running,      \* running[g]: the mp.Value running flag
    return_psd,   \* return_psd[g]: the mp.Value feature-frame request flag
    psd,          \* psd[g]: the shared feature-frame slot (RawArray)
    proc,         \* proc[g]: the mp.Process: "none", "initial", "started", "exited"
    wk,           \* wk[g]: the worker's locals [pc, dec, val, i]
    cpc,          \* where the client (reader) process is inside its operation
    cop,          \* the operation the client runs, or ran last
    cret,         \* what the last completed client operation returned
    csnap,        \* what held when the running get_prob_unread() tested the flag,
                  \* or the cycles computed when the running get_psd() set its flag
    sinceStart,   \* 0 until the client begins an operation after spawning the worker, then 1
    quiet,        \* the worker cleared pread and the client has not moved since
    unreadLog,    \* the last two vectors get_prob_unread() returned from this allocation
    lastRead,     \* the vector the latest get_prob() or get_prob_unread() returned from
                  \* this allocation, <<>> when there was none
    plock,        \* who holds the lock of the mp.Array probs: "free", "worker", "client"
    rbuf,         \* the entries a reader has copied out of the slot so far
    mock,         \* a mock BCIDecoder and the vector its get_prob() returned
    ld,           \* a trained model, a live stream and what BCIDecoder.__init__ made of them
    dpsd,         \* what the last get_psd() of an in-process BCIDecoder returned or raised
    ctor,         \* the arguments of BCIDecoderDaemon(...) and what __init__ made of them
    bal           \* a call of trainer.balance_samples: its arguments and its locals

decoderVars == <<buffer_sec, streamTs, streamLeft, dec>>
sharedVars == <<probs, pread, running, return_psd, psd>>
clientVars == <<cpc, cop, cret, csnap, sinceStart, unreadLog, lastRead>>
daemonVars == <<fake, nlabels, gen, sharedVars, proc, wk, clientVars, quiet>>
slotVars == <<plock, rbuf>>
loadVars == <<mock, ld, dpsd, ctor, bal>>
vars == <<decoderVars, daemonVars, slotVars, loadVars>>

(***************************************************************************)
(* BCIDecoder, real path.                                                  *)
(***************************************************************************)
\* BCIDecoder.__init__: psd_buffer has 0 frames, ts_buffer = []
\* (cycles counts the decode cycles; strict records that every window so far had
\* a later leading timestamp than the window of the cycle before)
NewDecoder == [psd_buffer |-> <<>>, ts_buffer |-> <<>>, cycles |-> 0, strict |-> TRUE]

\* np.searchsorted(a, v) (side='left'): binary search, 0-based insertion index
RECURSIVE BinSearch(_, _, _, _)
BinSearch(a, v, lo, hi) ==
    IF lo >= hi THEN lo
    ELSE LET mid == lo + ((hi - lo) \div 2)
         IN IF a[mid + 1] < v THEN BinSearch(a, v, mid + 1, hi)
                              ELSE BinSearch(a, v, lo, mid)

searchsorted(a, v) == BinSearch(a, v, 0, Len(a))

\* a slice that enters the newest timestamp a second time
TrimTsRepeatsNewest(tb, t_index) == Append(SubSeq(tb, t_index + 1, Len(tb)), tb[Len(tb)])
\* self.ts_buffer[t_index:]
TrimTs(tb, t_index) == SubSeq(tb, t_index + 1, Len(tb))

\* a slice that cuts the frames off the newer end
TrimPsdDropsNewest(pb, t_index) == SubSeq(pb, 1, Len(pb) - t_index)
\* self.psd_buffer[t_index:, :, :]
TrimPsdKeepAll(pb, t_index) == pb
TrimPsd(pb, t_index) == SubSeq(pb, t_index + 1, Len(pb))

\* the reference timestamp the eviction searches for: ts[0] - 1.0
EvictBefore(ts) == ts - OneSecond

\* the window with leading timestamp ts is later than the window before it
\* (the newest buffered timestamp is the one of the cycle before)
LaterWindow(d, ts) == Len(d.ts_buffer) = 0 \/ ts > d.ts_buffer[Len(d.ts_buffer)]

\* BCIDecoder.get_prob, real path: the buffer update of one cycle whose window
\* has leading timestamp ts and whose feature frame is frame
UpdateBuffer(d, ts, frame) ==
    LET pb == Append(d.psd_buffer, frame)
        tb == Append(d.ts_buffer, ts)
        strict == d.strict /\ LaterWindow(d, ts)
    IN IF ts - tb[1] > buffer_sec
       THEN LET t_index == searchsorted(tb, EvictBefore(ts))
            IN [psd_buffer |-> TrimPsd(pb, t_index),
                ts_buffer  |-> TrimTs(tb, t_index),
                cycles     |-> d.cycles + 1,
                strict     |-> strict]
       ELSE [psd_buffer |-> pb, ts_buffer |-> tb, cycles |-> d.cycles + 1,
             strict |-> strict]

\* the stream receiver hands out the next window: sr.acquire(); sr.get_window()
NextWindowTs == {streamTs + s : s \in TsSteps} \cap (0..MaxTime)

\* a decoder that skips the cycle when the window has not advanced
DecoderGetProbSkipsStale ==
    /\ streamLeft > 0
    /\ \E ts \in NextWindowTs :
          /\ streamTs' = ts
          /\ dec' = IF LaterWindow(dec, ts) THEN UpdateBuffer(dec, ts, dec.cycles + 1) ELSE dec
    /\ streamLeft' = streamLeft - 1
    /\ UNCHANGED <<slotVars, loadVars, buffer_sec, daemonVars>>

\* one in-process decode cycle, decoder.get_prob() on the caller's thread
DecoderGetProb ==
    /\ streamLeft > 0
    /\ \E ts \in NextWindowTs :
          /\ streamTs' = ts
          /\ dec' = UpdateBuffer(dec, ts, dec.cycles + 1)
    /\ streamLeft' = streamLeft - 1
    /\ UNCHANGED <<slotVars, loadVars, buffer_sec, daemonVars>>

\* BCIDecoder.get_psd(): return self.psd_buffer[-1].reshape((1, -1));
\* indexing a buffer of no frames raises IndexError
DecoderGetPsd ==
    /\ dpsd' = IF dec.psd_buffer = <<>>
               THEN [kind |-> "IndexError", val |-> <<>>]
               ELSE [kind |-> "frame", val |-> <<dec.psd_buffer[Len(dec.psd_buffer)]>>]
    /\ UNCHANGED <<decoderVars, daemonVars, slotVars, mock, ld, ctor, bal>>

(***************************************************************************)
(* BCIDecoderDaemon: shared state and the worker process.                  *)
(***************************************************************************)
\* the tag of the placeholder reset() fills the probability slot with
Uniform == <<0, 0>>
\* the tag of what cycle n of the worker of allocation g computed
Tag(g, n) == <<g, n>>
\* a vector (probabilities, or a flattened frame) all of whose entries come
\* from the same computation
Vec(n, tag) == [i \in 1..n |-> tag]

\* reset(): mp.Array('d', [1.0 / len(self.labels)] * len(self.labels))
NewProbs == Vec(nlabels, Uniform)
\* reset(): self.pread = mp.Value('i', 1)
NewPread == 1
\* reset(): self.running = mp.Value('i', 0)
NewRunning == 0
\* reset(): self.return_psd = mp.Value('i', 0)
NewReturnPsd == 0
\* reset(): self.psd is None in mock mode, else psd_size zeros
NewPsd == IF fake THEN <<>> ELSE Vec(PsdSize, Uniform)

\* the locals of a worker that has not been spawned
\* (late counts, up to MaxLate, the writes of the probability slot the worker
\* made while the running flag was 0)
NoWorker == [pc |-> "none", dec |-> NewDecoder, val |-> <<>>, i |-> 0, pub |-> 0,
             late |-> 0]

\* the count of late writes after one more write of the probability slot
LateWrites(g) ==
    IF running[g] = 0 /\ wk[g].late < MaxLate THEN wk[g].late + 1 ELSE wk[g].late

\* BCIDecoder.__init__, mock branch: self.labels = [11, 9]
FakeLabelCount == 2

\* get_prob(), mock branch: probs = [first], then
\* for x in range(1, len(self.labels)): probs.append(p_others)
RECURSIVE AppendTimes(_, _, _)
AppendTimes(q, x, n) == IF n <= 0 THEN q ELSE AppendTimes(Append(q, x), x, n - 1)

MockProbs(nl, first, p_others) == AppendTimes(<<first>>, p_others, nl - 1)

\* len(BCIDecoder.labels) of the decoder a worker builds: the classes of the
\* model, or the two labels of the mock branch
DecoderLabelCount == IF fake THEN FakeLabelCount ELSE nlabels

\* the number of the next cycle of a worker; a mock worker never runs out of
\* cycles, its tags stop counting at MaxCycles
NextCycle(d) == IF fake /\ d.cycles >= MaxCycles THEN MaxCycles ELSE d.cycles + 1

\* the windows a worker's stream receiver can hand out next
DaemonNextWindowTs == {streamTs + s : s \in DaemonTsSteps} \cap (0..MaxTime)

\* a worker that marks the slot unread as soon as it runs
WorkerInitMarksUnread(g) ==
    /\ proc[g] = "started"
    /\ wk[g].pc = "init"
    /\ running' = [running EXCEPT ![g] = 1]
    /\ pread' = [pread EXCEPT ![g] = 0]
    /\ wk' = [wk EXCEPT ![g].pc = "loop", ![g].dec = NewDecoder]
    /\ UNCHANGED <<slotVars, loadVars, decoderVars, fake, nlabels, gen, probs, return_psd, psd,
                   proc, clientVars, quiet>>

\* daemon(): decoder = BCIDecoder(classifier, ...) inside the child process,
\* then self.running.value = 1 (building the decoder touches nothing shared)
WorkerInit(g) ==
    /\ proc[g] = "started"
    /\ wk[g].pc = "init"
    /\ running' = [running EXCEPT ![g] = 1]
    /\ wk' = [wk EXCEPT ![g].pc = "loop", ![g].dec = NewDecoder]
    /\ UNCHANGED <<slotVars, loadVars, decoderVars, fake, nlabels, gen, probs, pread, return_psd, psd,
                   proc, clientVars, quiet>>

\* daemon(): decoder = BCIDecoder(classifier, ...) raises in the child process
\* (RuntimeError on a stream whose sampling rate is not the model's, ValueError
\* on a missing channel) or exits (the model file cannot be loaded): the
\* process ends before self.running.value = 1.  The mock branch of the
\* constructor has nothing that fails.
WorkerInitFails(g) ==
    /\ ~fake
    /\ proc[g] = "started"
    /\ wk[g].pc = "init"
    /\ wk' = [wk EXCEPT ![g].pc = "init_failed"]
    /\ proc' = [proc EXCEPT ![g] = "exited"]
    /\ UNCHANGED <<slotVars, loadVars, decoderVars, fake, nlabels, gen, sharedVars, clientVars, quiet>>

\* daemon(): while running.value == 1; the process ends when the test fails
WorkerLoopTestIgnoresFlag(g) ==
    /\ proc[g] = "started"
    /\ wk[g].pc = "loop"
    /\ wk' = [wk EXCEPT ![g].pc = "decode"]
    /\ UNCHANGED <<slotVars, loadVars, decoderVars, fake, nlabels, gen, sharedVars, proc, clientVars, quiet>>

WorkerLoopTest(g) ==
    /\ proc[g] = "started"
    /\ wk[g].pc = "loop"
    /\ IF running[g] = 1
       THEN /\ wk' = [wk EXCEPT ![g].pc = "decode"]
            /\ UNCHANGED proc
       ELSE /\ wk' = [wk EXCEPT ![g].pc = "exited"]
            /\ proc' = [proc EXCEPT ![g] = "exited"]
    /\ UNCHANGED <<slotVars, loadVars, decoderVars, fake, nlabels, gen, sharedVars, clientVars, quiet>>

\* decoder.get_prob() as the worker calls it: what it returns and what it
\* makes of the decoder, for a window with leading timestamp ts.
\* real path: the buffer update and the classifier's vector;
\* mock path: a list of len(BCIDecoder.labels) values
WorkerGetProb(g, ts) ==
    LET n == NextCycle(wk[g].dec)
    IN IF fake
       THEN [dec |-> [wk[g].dec EXCEPT !.cycles = n],
             val |-> MockProbs(DecoderLabelCount, Tag(g, n), Tag(g, n))]
       ELSE [dec |-> UpdateBuffer(wk[g].dec, ts, Tag(g, n)),
             val |-> Vec(DecoderLabelCount, Tag(g, n))]

\* daemon(): probs[:] = decoder.get_prob()
\* real path: sr.acquire() waits until the stream has a window; the slice
\* assignment holds the array's lock and raises ValueError when the lengths
\* differ, which ends the process.  The decoder's own work touches nothing
\* shared, so it is one step with the write.
WorkerWriteProbsAnyLength(g) ==
    /\ proc[g] = "started"
    /\ wk[g].pc = "decode"
    /\ fake \/ streamLeft > 0
    /\ \E ts \in (IF fake THEN {streamTs} ELSE DaemonNextWindowTs) :
          LET r == WorkerGetProb(g, ts)
          IN /\ streamTs' = ts
             /\ probs' = [probs EXCEPT ![g] = r.val]
             /\ wk' = [wk EXCEPT ![g].pc = "clear", ![g].dec = r.dec, ![g].val = r.val,
                                 ![g].late = LateWrites(g)]
             /\ UNCHANGED proc
    /\ streamLeft' = IF fake THEN streamLeft ELSE streamLeft - 1
    /\ UNCHANGED <<slotVars, loadVars, buffer_sec, dec, fake, nlabels, gen, pread, running, return_psd, psd,
                   clientVars, quiet>>

WorkerWriteProbs(g) ==
    /\ proc[g] = "started"
    /\ wk[g].pc = "decode"
    /\ fake \/ streamLeft > 0
    /\ \E ts \in (IF fake THEN {streamTs} ELSE DaemonNextWindowTs) :
          LET r == WorkerGetProb(g, ts)
          IN /\ streamTs' = ts
             /\ IF Len(r.val) = Len(probs[g])
                THEN /\ probs' = [probs EXCEPT ![g] = r.val]
                     /\ wk' = [wk EXCEPT ![g].pc = "clear", ![g].dec = r.dec,
                                         ![g].val = r.val, ![g].late = LateWrites(g)]
                     /\ UNCHANGED proc
                ELSE /\ wk' = [wk EXCEPT ![g].pc = "exited", ![g].dec = r.dec,
                                         ![g].val = r.val]
                     /\ proc' = [proc EXCEPT ![g] = "exited"]
                     /\ UNCHANGED probs
    /\ streamLeft' = IF fake THEN streamLeft ELSE streamLeft - 1
    /\ UNCHANGED <<slotVars, loadVars, buffer_sec, dec, fake, nlabels, gen, pread, running, return_psd, psd,
                   clientVars, quiet>>

\* daemon(): pread.value = 0
WorkerClearPreadSetsRead(g) ==
    /\ proc[g] = "started"
    /\ wk[g].pc = "clear"
    /\ pread' = [pread EXCEPT ![g] = 1]
    /\ wk' = [wk EXCEPT ![g].pc = IF fake THEN "loop" ELSE "check_psd",
                        ![g].pub = wk[g].dec.cycles]
    /\ quiet' = IF g = gen THEN TRUE ELSE quiet
    /\ UNCHANGED <<slotVars, loadVars, decoderVars, fake, nlabels, gen, probs, running, return_psd, psd,
                   proc, clientVars>>

WorkerClearPread(g) ==
    /\ proc[g] = "started"
    /\ wk[g].pc = "clear"
    /\ pread' = [pread EXCEPT ![g] = 0]
    /\ wk' = [wk EXCEPT ![g].pc = IF fake THEN "loop" ELSE "check_psd",
                        ![g].pub = wk[g].dec.cycles]
    /\ quiet' = IF g = gen THEN TRUE ELSE quiet
    /\ UNCHANGED <<slotVars, loadVars, decoderVars, fake, nlabels, gen, probs, running, return_psd, psd,
                   proc, clientVars>>

\* daemon(): if self.fake == False: if return_psd.value == 1:
WorkerCheckPsdSkips(g) ==
    /\ proc[g] = "started"
    /\ wk[g].pc = "check_psd"
    /\ wk' = [wk EXCEPT ![g].pc = "loop", ![g].i = 1]
    /\ UNCHANGED <<slotVars, loadVars, decoderVars, fake, nlabels, gen, sharedVars, proc, clientVars, quiet>>

\* a worker that clears the request flag before it copies the frame
WorkerCheckPsdClearsFirst(g) ==
    /\ proc[g] = "started"
    /\ wk[g].pc = "check_psd"
    /\ wk' = [wk EXCEPT ![g].pc = IF return_psd[g] = 1 THEN "copy" ELSE "loop",
                        ![g].i = 1]
    /\ return_psd' = [return_psd EXCEPT ![g] = 0]
    /\ UNCHANGED <<slotVars, loadVars, decoderVars, fake, nlabels, gen, probs, pread, running, psd,
                   proc, clientVars, quiet>>

\* a worker that copies the feature frame after every cycle
WorkerCheckPsdAlways(g) ==
    /\ proc[g] = "started"
    /\ wk[g].pc = "check_psd"
    /\ wk' = [wk EXCEPT ![g].pc = "copy", ![g].i = 1]
    /\ UNCHANGED <<slotVars, loadVars, decoderVars, fake, nlabels, gen, sharedVars, proc, clientVars, quiet>>

WorkerCheckPsd(g) ==
    /\ proc[g] = "started"
    /\ wk[g].pc = "check_psd"
    /\ wk' = [wk EXCEPT ![g].pc = IF return_psd[g] = 1 THEN "copy" ELSE "loop",
                        ![g].i = 1]
    /\ UNCHANGED <<slotVars, loadVars, decoderVars, fake, nlabels, gen, sharedVars, proc, clientVars, quiet>>

\* daemon(): psd[:] = decoder.psd_buffer[-1].reshape((1, -1)), entry by entry
\* (no lock is held); IndexError on an empty buffer ends the process
WorkerCopyPsd(g) ==
    /\ proc[g] = "started"
    /\ wk[g].pc = "copy"
    /\ LET pb == wk[g].dec.psd_buffer
       IN IF Len(pb) = 0
          THEN /\ wk' = [wk EXCEPT ![g].pc = "exited"]
               /\ proc' = [proc EXCEPT ![g] = "exited"]
               /\ UNCHANGED psd
          ELSE /\ psd' = [psd EXCEPT ![g][wk[g].i] = pb[Len(pb)]]
               /\ wk' = [wk EXCEPT ![g].i = wk[g].i + 1,
                                   ![g].pc = IF wk[g].i = PsdSize THEN "clear_psd" ELSE "copy"]
               /\ UNCHANGED proc
    /\ UNCHANGED <<slotVars, loadVars, decoderVars, fake, nlabels, gen, probs, pread, running, return_psd,
                   clientVars, quiet>>

\* daemon(): return_psd.value = 0
WorkerClearReturnPsd(g) ==
    /\ proc[g] = "started"
    /\ wk[g].pc = "clear_psd"
    /\ return_psd' = [return_psd EXCEPT ![g] = 0]
    /\ wk' = [wk EXCEPT ![g].pc = "loop"]
    /\ UNCHANGED <<slotVars, loadVars, decoderVars, fake, nlabels, gen, probs, pread, running, psd,
                   proc, clientVars, quiet>>

\* the stream source stops sending (amplifier or LSL server gone): from then
\* on sr.acquire() finds no new window
StreamStalls ==
    /\ streamLeft > 0
    /\ streamLeft' = 0
    /\ UNCHANGED <<slotVars, loadVars, buffer_sec, streamTs, dec, daemonVars>>

\* every step of the worker processes
Worker ==
    \E g \in Gens :
        \/ WorkerInit(g)
        \/ WorkerInitFails(g)
        \/ WorkerLoopTest(g)
        \/ WorkerWriteProbs(g)
        \/ WorkerClearPread(g)
        \/ WorkerCheckPsd(g)
        \/ WorkerCopyPsd(g)
        \/ WorkerClearReturnPsd(g)

(***************************************************************************)
(* BCIDecoderDaemon: the operations of the client (reader) process.  Each  *)
(* access to shared memory is one step.                                    *)
(***************************************************************************)
Ret(kind, val) == [kind |-> kind, val |-> val]
Pending == Ret("pending", <<>>)
NoSnap == [first |-> FALSE, quiet |-> FALSE, pub |-> 0, cyc |-> 0]
Bump(n) == 1
Log2(log, v) == IF Len(log) < 2 THEN Append(log, v) ELSE <<log[2], v>>

\* get_prob(): self.pread.value = 1
ClientGetProb ==
    /\ cpc = "idle"
    /\ pread' = [pread EXCEPT ![gen] = 1]
    /\ cpc' = "gp_read"
    /\ cop' = "get_prob"
    /\ cret' = Pending
    /\ csnap' = NoSnap
    /\ sinceStart' = Bump(sinceStart)
    /\ quiet' = FALSE
    /\ UNCHANGED <<slotVars, loadVars, decoderVars, fake, nlabels, gen, probs, running, return_psd, psd,
                   proc, wk, unreadLog, lastRead>>

\* a read that takes the vector out of the slot
ClientReadProbsConsumes ==
    /\ cpc = "gp_read"
    /\ cret' = Ret("vec", probs[gen])
    /\ probs' = [probs EXCEPT ![gen] = NewProbs]
    /\ cpc' = "idle"
    /\ unreadLog' = IF cop = "get_prob_unread" THEN Log2(unreadLog, probs[gen])
                                               ELSE unreadLog
    /\ lastRead' = probs[gen]
    /\ quiet' = FALSE
    /\ UNCHANGED <<slotVars, loadVars, decoderVars, fake, nlabels, gen, pread, running, return_psd,
                   psd, proc, wk, cop, csnap, sinceStart>>

\* a read that waits until the worker has published a vector not yet read
ClientReadProbsAwaitsWorker ==
    /\ cpc = "gp_read"
    /\ pread[gen] = 0
    /\ cret' = Ret("vec", probs[gen])
    /\ cpc' = "idle"
    /\ unreadLog' = IF cop = "get_prob_unread" THEN Log2(unreadLog, probs[gen])
                                               ELSE unreadLog
    /\ lastRead' = probs[gen]
    /\ quiet' = FALSE
    /\ UNCHANGED <<slotVars, loadVars, decoderVars, fake, nlabels, gen, sharedVars, proc, wk, cop, csnap,
                   sinceStart>>

\* get_prob(): return self.probs[:] (the slice read holds the array's lock)
ClientReadProbs ==
    /\ cpc = "gp_read"
    /\ cret' = Ret("vec", probs[gen])
    /\ cpc' = "idle"
    /\ unreadLog' = IF cop = "get_prob_unread" THEN Log2(unreadLog, probs[gen])
                                               ELSE unreadLog
    /\ lastRead' = probs[gen]
    /\ quiet' = FALSE
    /\ UNCHANGED <<slotVars, loadVars, decoderVars, fake, nlabels, gen, sharedVars, proc, wk, cop, csnap,
                   sinceStart>>

\* get_prob_unread(): if self.pread.value == 0: ... else: return None
ClientGetProbUnreadNoTest ==
    /\ cpc = "idle"
    /\ cop' = "get_prob_unread"
    /\ csnap' = [first |-> sinceStart = 0, quiet |-> quiet, pub |-> wk[gen].pub, cyc |-> 0]
    /\ sinceStart' = Bump(sinceStart)
    /\ quiet' = FALSE
    /\ cpc' = "gpu_set"
    /\ cret' = Pending
    /\ UNCHANGED <<slotVars, loadVars, decoderVars, fake, nlabels, gen, sharedVars, proc, wk, unreadLog, lastRead>>

ClientGetProbUnread ==
    /\ cpc = "idle"
    /\ cop' = "get_prob_unread"
    /\ csnap' = [first |-> sinceStart = 0, quiet |-> quiet, pub |-> wk[gen].pub, cyc |-> 0]
    /\ sinceStart' = Bump(sinceStart)
    /\ quiet' = FALSE
    /\ IF pread[gen] = 0
       THEN /\ cpc' = "gpu_set"
            /\ cret' = Pending
       ELSE /\ cpc' = "idle"
            /\ cret' = Ret("none", <<>>)
    /\ UNCHANGED <<slotVars, loadVars, decoderVars, fake, nlabels, gen, sharedVars, proc, wk, unreadLog, lastRead>>

\* get_prob_unread() -> get_prob(): self.pread.value = 1
ClientUnreadSetPread ==
    /\ cpc = "gpu_set"
    /\ pread' = [pread EXCEPT ![gen] = 1]
    /\ cpc' = "gp_read"
    /\ quiet' = FALSE
    /\ UNCHANGED <<slotVars, loadVars, decoderVars, fake, nlabels, gen, probs, running, return_psd, psd,
                   proc, wk, cop, cret, csnap, sinceStart, unreadLog, lastRead>>

\* get_psd(): self.return_psd.value = 1
ClientGetPsd ==
    /\ cpc = "idle"
    /\ return_psd' = [return_psd EXCEPT ![gen] = 1]
    /\ cpc' = "psd_poll"
    /\ cop' = "get_psd"
    /\ cret' = Pending
    /\ csnap' = [NoSnap EXCEPT !.cyc = wk[gen].dec.cycles]
    /\ sinceStart' = Bump(sinceStart)
    /\ quiet' = FALSE
    /\ UNCHANGED <<slotVars, loadVars, decoderVars, fake, nlabels, gen, probs, pread, running, psd,
                   proc, wk, unreadLog, lastRead>>

\* get_psd(): while self.return_psd.value == 1: time.sleep(0.001); return self.psd
ClientPsdPoll ==
    /\ cpc = "psd_poll"
    /\ return_psd[gen] = 0
    /\ cret' = Ret("psd", psd[gen])
    /\ cpc' = "idle"
    /\ quiet' = FALSE
    /\ UNCHANGED <<slotVars, loadVars, decoderVars, fake, nlabels, gen, sharedVars, proc, wk, cop, csnap,
                   sinceStart, unreadLog, lastRead>>

\* is_running(): return self.running.value
ClientIsRunning ==
    /\ cpc = "idle"
    /\ cop' = "is_running"
    /\ cret' = Ret("flag", <<running[gen]>>)
    /\ csnap' = NoSnap
    /\ sinceStart' = Bump(sinceStart)
    /\ quiet' = FALSE
    /\ UNCHANGED <<slotVars, loadVars, decoderVars, fake, nlabels, gen, sharedVars, proc, wk, cpc, unreadLog, lastRead>>

\* start(): returns with a message when running is 1, else self.proc.start(),
\* which raises AssertionError on a process object that was started before
ClientStart ==
    /\ cpc = "idle"
    /\ cop' = "start"
    /\ csnap' = NoSnap
    /\ quiet' = FALSE
    /\ IF running[gen] = 1
       THEN /\ cret' = Ret("already_running", <<>>)
            /\ sinceStart' = Bump(sinceStart)
            /\ UNCHANGED <<proc, wk>>
       ELSE IF proc[gen] = "initial"
       THEN /\ proc' = [proc EXCEPT ![gen] = "started"]
            /\ wk' = [wk EXCEPT ![gen].pc = "init"]
            /\ cret' = Ret("started", <<>>)
            /\ sinceStart' = 0
       ELSE /\ cret' = Ret("AssertionError", <<>>)
            /\ sinceStart' = Bump(sinceStart)
            /\ UNCHANGED <<proc, wk>>
    /\ UNCHANGED <<slotVars, loadVars, decoderVars, fake, nlabels, gen, sharedVars, cpc, unreadLog, lastRead>>

\* a stop() that clears the flag and joins whatever the flag says
ClientStopUnguarded ==
    /\ cpc = "idle"
    /\ gen < MaxGen
    /\ cop' = "stop"
    /\ csnap' = NoSnap
    /\ sinceStart' = Bump(sinceStart)
    /\ quiet' = FALSE
    /\ cret' = Pending
    /\ cpc' = "stop_join"
    /\ running' = [running EXCEPT ![gen] = 0]
    /\ UNCHANGED <<slotVars, loadVars, decoderVars, fake, nlabels, gen, probs, pread, return_psd, psd,
                   proc, wk, unreadLog, lastRead>>

\* stop(): returns with a warning when running is 0, else
\* self.running.value = 0 (nothing else writes the flag in between: the worker
\* writes it once, before its loop)
ClientStop ==
    /\ cpc = "idle"
    /\ running[gen] = 0 \/ gen < MaxGen
    /\ cop' = "stop"
    /\ csnap' = NoSnap
    /\ sinceStart' = Bump(sinceStart)
    /\ quiet' = FALSE
    /\ IF running[gen] = 0
       THEN /\ cret' = Ret("already_stopped", <<>>)
            /\ cpc' = "idle"
            /\ UNCHANGED running
       ELSE /\ cret' = Pending
            /\ cpc' = "stop_join"
            /\ running' = [running EXCEPT ![gen] = 0]
    /\ UNCHANGED <<slotVars, loadVars, decoderVars, fake, nlabels, gen, probs, pread, return_psd, psd,
                   proc, wk, unreadLog, lastRead>>

\* self.proc.join(), no timeout: returns once the process has ended
JoinReturnsAtOnce(g) == TRUE
JoinReturns(g) == proc[g] = "exited"

\* reset() rebinds self.probs, self.pread, ... : once the worker that held the
\* old objects has ended, nothing refers to them and they are gone
Dropped(f, null) == IF proc[gen] = "exited" THEN [f EXCEPT ![gen] = null] ELSE f

\* stop(): self.proc.join(); self.reset(), which allocates new shared state
\* and a new, not yet started, process object; then stop() returns
ClientStopJoinReset ==
    /\ cpc = "stop_join"
    /\ JoinReturns(gen)
    /\ gen' = gen + 1
    /\ probs' = [Dropped(probs, <<>>) EXCEPT ![gen + 1] = NewProbs]
    /\ pread' = [Dropped(pread, -1) EXCEPT ![gen + 1] = NewPread]
    /\ running' = [Dropped(running, -1) EXCEPT ![gen + 1] = NewRunning]
    /\ return_psd' = [Dropped(return_psd, -1) EXCEPT ![gen + 1] = NewReturnPsd]
    /\ psd' = [Dropped(psd, <<>>) EXCEPT ![gen + 1] = NewPsd]
    /\ proc' = [proc EXCEPT ![gen + 1] = "initial"]
    /\ wk' = Dropped(wk, [NoWorker EXCEPT !.pc = "exited"])
    /\ cret' = Ret("stopped", <<>>)
    /\ cpc' = "idle"
    /\ quiet' = FALSE
    /\ unreadLog' = <<>>
    /\ lastRead' = <<>>
    /\ UNCHANGED <<slotVars, loadVars, decoderVars, fake, nlabels, cop, csnap, sinceStart>>

\* every step of the client
Client ==
    \/ ClientGetProb
    \/ ClientReadProbs
    \/ ClientGetProbUnread
    \/ ClientUnreadSetPread
    \/ ClientGetPsd
    \/ ClientPsdPoll
    \/ ClientIsRunning
    \/ ClientStart
    \/ ClientStop
    \/ ClientStopJoinReset

(***************************************************************************)
(* The probability slot entry by entry.  self.probs is an mp.Array made    *)
(* with the default lock: a slice assignment and a slice read each take    *)
(* the array's lock, copy the entries one after the other and release it. *)
(* The steps below split WorkerWriteProbs and ClientReadProbs accordingly; *)
(* the specification SpecSlot runs one worker against one reader.          *)
(***************************************************************************)
\* an array without a lock (mp.Array(..., lock=False)): never held
ArrayLockAbsent == TRUE

\* SynchronizedArray.__setitem__ / __getitem__: "with self:" waits for the lock
ArrayLockFree == plock = "free"

\* daemon(): probs[:] = decoder.get_prob() up to the moment the slice
\* assignment holds the lock; ValueError on differing lengths ends the process
SlotWorkerLock(g) ==
    /\ proc[g] = "started"
    /\ wk[g].pc = "decode"
    /\ fake \/ streamLeft > 0
    /\ \E ts \in (IF fake THEN {streamTs} ELSE DaemonNextWindowTs) :
          LET r == WorkerGetProb(g, ts)
          IN /\ streamTs' = ts
             /\ IF Len(r.val) = Len(probs[g])
                THEN /\ ArrayLockFree
                     /\ plock' = "worker"
                     /\ wk' = [wk EXCEPT ![g].pc = "w_write", ![g].dec = r.dec,
                                         ![g].val = r.val, ![g].i = 1,
                                         ![g].late = LateWrites(g)]
                     /\ UNCHANGED proc
                ELSE /\ wk' = [wk EXCEPT ![g].pc = "exited", ![g].dec = r.dec,
                                         ![g].val = r.val]
                     /\ proc' = [proc EXCEPT ![g] = "exited"]
                     /\ UNCHANGED plock
    /\ streamLeft' = IF fake THEN streamLeft ELSE streamLeft - 1
    /\ UNCHANGED <<rbuf, loadVars, buffer_sec, dec, fake, nlabels, gen, sharedVars,
                   clientVars, quiet>>

\* the slice assignment copies one entry into the slot
SlotWorkerWrite(g) ==
    /\ proc[g] = "started"
    /\ wk[g].pc = "w_write"
    /\ probs' = [probs EXCEPT ![g][wk[g].i] = wk[g].val[wk[g].i]]
    /\ wk' = [wk EXCEPT ![g].i = IF wk[g].i = Len(probs[g]) THEN 0 ELSE wk[g].i + 1,
                        ![g].pc = IF wk[g].i = Len(probs[g]) THEN "w_unlock"
                                                              ELSE "w_write"]
    /\ UNCHANGED <<slotVars, loadVars, decoderVars, fake, nlabels, gen, pread, running,
                   return_psd, psd, proc, clientVars, quiet>>

\* the slice assignment is complete: the lock is released
SlotWorkerUnlock(g) ==
    /\ proc[g] = "started"
    /\ wk[g].pc = "w_unlock"
    /\ plock' = "free"
    /\ wk' = [wk EXCEPT ![g].pc = "clear"]
    /\ UNCHANGED <<rbuf, loadVars, decoderVars, fake, nlabels, gen, sharedVars, proc,
                   clientVars, quiet>>

\* get_prob() / get_prob_unread(): self.probs[:] takes the lock
SlotClientLock ==
    /\ cpc = "gp_read"
    /\ ArrayLockFree
    /\ plock' = "client"
    /\ rbuf' = <<>>
    /\ cpc' = "r_copy"
    /\ quiet' = FALSE
    /\ UNCHANGED <<loadVars, decoderVars, fake, nlabels, gen, sharedVars, proc, wk, cop,
                   cret, csnap, sinceStart, unreadLog, lastRead>>

\* the slice read copies one entry out of the slot
SlotClientCopy ==
    /\ cpc = "r_copy"
    /\ Len(rbuf) < Len(probs[gen])
    /\ rbuf' = Append(rbuf, probs[gen][Len(rbuf) + 1])
    /\ UNCHANGED <<plock, loadVars, decoderVars, daemonVars>>

\* the slice read is complete: the lock is released and the copy returned
SlotClientUnlock ==
    /\ cpc = "r_copy"
    /\ Len(rbuf) = Len(probs[gen])
    /\ plock' = "free"
    /\ cret' = Ret("vec", rbuf)
    /\ rbuf' = <<>>
    /\ cpc' = "idle"
    /\ unreadLog' = IF cop = "get_prob_unread" THEN Log2(unreadLog, rbuf) ELSE unreadLog
    /\ lastRead' = rbuf
    /\ UNCHANGED <<loadVars, decoderVars, fake, nlabels, gen, sharedVars, proc, wk, cop,
                   csnap, sinceStart, quiet>>

\* one worker (the one __init__ spawned) against a reader that calls
\* get_prob() and get_prob_unread()
NextSlot ==
    \/ WorkerInit(1)
    \/ WorkerLoopTest(1)
    \/ SlotWorkerLock(1)
    \/ SlotWorkerWrite(1)
    \/ SlotWorkerUnlock(1)
    \/ WorkerClearPread(1)
    \/ WorkerCheckPsd(1)
    \/ ClientGetProb
    \/ ClientGetProbUnread
    \/ ClientUnreadSetPread
    \/ SlotClientLock
    \/ SlotClientCopy
    \/ SlotClientUnlock

(***************************************************************************)
(* The mock BCIDecoder on its own: the numbers its get_prob() returns.     *)
(* A number is a fraction <<numerator, denominator>> with a positive       *)
(* denominator; the random draw is a multiple of 1/MockGrid in [0, 1).     *)
(***************************************************************************)
RatEq(a, b) == a[1] * b[2] = b[1] * a[2]
RatLess(a, b) == a[1] * b[2] < b[1] * a[2]
\* 1 - a
OneMinus(a) == <<a[2] - a[1], a[2]>>
\* a / n with true division (from __future__ import division)
RatDivInt(a, n) == <<a[1], a[2] * n>>

\* random.uniform(0.0, 1.0): 0.0 + (1.0 - 0.0) * random(), random() in [0, 1)
RandomUniform == {<<n, MockGrid>> : n \in 0..(MockGrid - 1)}

\* BCIDecoder.__init__(fake=True): self.labels = [11, 9] whatever the caller's labels
MadeMock == [status |-> "made", out |-> <<>>]

\* BCIDecoder.get_prob(), mock branch, for the draw u
MockGetProbValue(u) ==
    LET p_others == RatDivInt(OneMinus(u), FakeLabelCount - 1)
    IN MockProbs(FakeLabelCount, u, p_others)

MockGetProb ==
    /\ mock.status \in {"made", "called"}
    /\ \E u \in RandomUniform :
          mock' = [status |-> "called", out |-> MockGetProbValue(u)]
    /\ UNCHANGED <<decoderVars, daemonVars, slotVars, ld, dpsd, ctor, bal>>

\* BCIDecoder.get_psd() of a mock decoder: __init__ made no psd_buffer
\* attribute, self.psd_buffer raises AttributeError
MockGetPsd ==
    /\ mock.status \in {"made", "called"}
    /\ dpsd' = Ret("AttributeError", <<>>)
    /\ UNCHANGED <<decoderVars, daemonVars, slotVars, mock, ld, ctor, bal>>

(***************************************************************************)
(* BCIDecoder.__init__, real path: what the constructor makes of a model   *)
(* file and of the stream it connects to.  The sampling rate is in Hz and  *)
(* the window length w_seconds in milliseconds, so that their product is   *)
(* exact; channel indices are Python's (the first channel is 0); an        *)
(* attribute that may be None is <<>> when None and <<value>> when set.    *)
(***************************************************************************)
\* model['sfreq'] and the stream's sample_rate
SampleRates == {250, 512}
\* model['w_seconds'], in milliseconds
WindowMs == {300, 500, 1000}
\* by how much model['w_frames'] differs from the truncated product
FrameOffsets == {-1, 0, 1}

\* the channel attributes of model files: ch_names, picks, spatial_ch,
\* spectral_ch, notch_ch, ref_new, ref_old
ModelChannels ==
    { [ch_names |-> <<"C3", "C4", "Cz">>, picks |-> <<0, 1, 2>>,
       spatial_ch |-> <<>>, spectral_ch |-> <<>>, notch_ch |-> <<>>,
       ref_new |-> <<>>, ref_old |-> <<>>],
      [ch_names |-> <<"Fp1", "C3", "C4", "Cz">>, picks |-> <<1, 3>>,
       spatial_ch |-> << <<1, 2, 3>> >>, spectral_ch |-> << <<3>> >>,
       notch_ch |-> << <<2, 1>> >>, ref_new |-> <<0>>, ref_old |-> <<3>>],
      [ch_names |-> <<"Cz", "C3">>, picks |-> <<1, 0>>,
       spatial_ch |-> << <<0, 1>> >>, spectral_ch |-> <<>>, notch_ch |-> <<>>,
       ref_new |-> <<>>, ref_old |-> <<1>>] }

\* sr.get_channel_names() of the streams a decoder connects to
StreamChannels ==
    { <<"Cz", "C3", "C4", "Fp1">>, <<"C3", "C4", "Cz">>,
      <<"Fp1", "Cz", "C4", "C3">>, <<"Cz", "C3">> }

\* int(self.sfreq * self.w_seconds) with the product rounded to the nearest integer
WindowFramesRounded(sfreq, w_ms) ==
    LET q == (sfreq * w_ms) \div 1000
        r == (sfreq * w_ms) % 1000
    IN IF 2 * r < 1000 THEN q
       ELSE IF 2 * r > 1000 THEN q + 1
       ELSE IF q % 2 = 0 THEN q ELSE q + 1

\* int(self.sfreq * self.w_seconds): int() drops the fractional part
WindowFrames(sfreq, w_ms) == (sfreq * w_ms) \div 1000

\* a comparison that lets every stream rate pass
SameRateUnchecked(sfreq, sample_rate) == TRUE

\* not (self.sfreq != self.sr.sample_rate)
SameRate(sfreq, sample_rate) == sfreq = sample_rate

\* list.index(name): the position of the first entry equal to name;
\* ValueError (here -1) when there is none
RECURSIVE IndexFrom(_, _, _)
IndexFrom(names, name, i) ==
    IF i > Len(names) THEN -1
    ELSE IF names[i] = name THEN i - 1
    ELSE IndexFrom(names, name, i + 1)

index(names, name) == IndexFrom(names, name, 1)

\* the model's indices taken for indices of the stream
MapChannelsByPosition(ch_names, mc, idx) == idx

\* [self.ch_names.index(mc[p]) for p in idx]
MapChannels(ch_names, mc, idx) ==
    [j \in 1..Len(idx) |-> index(ch_names, mc[idx[j] + 1])]

\* if x is not None: x = [self.ch_names.index(mc[p]) for p in x]
MapOptionalList(ch_names, mc, x) ==
    IF x = <<>> THEN <<>> ELSE << MapChannels(ch_names, mc, x[1]) >>

\* if x is not None: x = self.ch_names.index(mc[x])
MapOptionalChannel(ch_names, mc, x) ==
    IF x = <<>> THEN <<>> ELSE << index(ch_names, mc[x[1] + 1]) >>

\* the channel attributes of the decoder after the mapping
MappedChannels(m, ch_names) ==
    [picks |-> MapChannels(ch_names, m.ch_names, m.picks),
     spatial_ch |-> MapOptionalList(ch_names, m.ch_names, m.spatial_ch),
     spectral_ch |-> MapOptionalList(ch_names, m.ch_names, m.spectral_ch),
     notch_ch |-> MapOptionalList(ch_names, m.ch_names, m.notch_ch),
     ref_new |-> MapOptionalChannel(ch_names, m.ch_names, m.ref_new),
     ref_old |-> MapOptionalChannel(ch_names, m.ch_names, m.ref_old)]

\* some index() of the mapping raised ValueError
NameMissing(c) ==
    \/ \E j \in DOMAIN c.picks : c.picks[j] = -1
    \/ \E f \in {c.spatial_ch, c.spectral_ch, c.notch_ch} :
          f # <<>> /\ \E j \in DOMAIN f[1] : f[1][j] = -1
    \/ c.ref_new = <<-1>>
    \/ c.ref_old = <<-1>>

NoChannels ==
    [picks |-> <<>>, spatial_ch |-> <<>>, spectral_ch |-> <<>>, notch_ch |-> <<>>,
     ref_new |-> <<>>, ref_old |-> <<>>]

\* a model file and a stream, before BCIDecoder(...) is called
ModelAndStream ==
    { [status |-> "model", sfreq |-> f, w_ms |-> w,
       w_frames |-> WindowFrames(f, w) + o, sample_rate |-> r,
       model |-> m, ch_names |-> n, mapped |-> NoChannels, psd_buffer |-> FALSE] :
      f \in SampleRates, w \in WindowMs, o \in FrameOffsets, r \in SampleRates,
      m \in ModelChannels, n \in StreamChannels }

\* BCIDecoder.__init__(classifier): the checks in the order of the code; each
\* raise leaves the constructor, so that no object is returned
BCIDecoderInit ==
    /\ ld.status = "model"
    /\ LET c == MappedChannels(ld.model, ld.ch_names)
       IN IF WindowFrames(ld.sfreq, ld.w_ms) # ld.w_frames
          THEN ld' = [ld EXCEPT !.status = "RuntimeError: w_frames"]
          ELSE IF ~SameRate(ld.sfreq, ld.sample_rate)
          THEN ld' = [ld EXCEPT !.status = "RuntimeError: sampling rate"]
          ELSE IF NameMissing(c)
          THEN ld' = [ld EXCEPT !.status = "ValueError"]
          ELSE ld' = [ld EXCEPT !.status = "ok", !.mapped = c, !.psd_buffer = TRUE]
    /\ UNCHANGED <<decoderVars, daemonVars, slotVars, mock, dpsd, ctor, bal>>

\* get_prob() of the decoder the constructor returned
LoadedGetProb ==
    /\ ld.status = "ok"
    /\ DecoderGetProb

(***************************************************************************)
(* BCIDecoderDaemon.__init__: what the constructor makes of its arguments. *)
(* A label container is [type, items]: a list of names, or a dict whose    *)
(* items are <<name, code>> pairs.                                         *)
(***************************************************************************)
\* trigger_def('triggerdef_16.ini'): the two entries decoder.py itself names
by_key(t) == IF t = "LEFT_GO" THEN 11 ELSE 9
by_value(v) == IF v = 11 THEN "LEFT_GO" ELSE "RIGHT_GO"
\* (the models below were trained on the same two triggers, so that
\* model['classes'][code] is by_value(code))

\* what qc.load_obj(classifier) returns: None (no such file), or a model
\* with cls.classes_ (sorted class codes) and model['classes'] (code -> name)
ModelFiles == { [loaded |-> FALSE, classes_ |-> <<>>],
                [loaded |-> TRUE, classes_ |-> <<9, 11>>] }

\* the fake_dirs argument: None, a tuple, or a list of trigger names
FakeDirs ==
    { [type |-> "NoneType", items |-> <<>>],
      [type |-> "tuple", items |-> <<"LEFT_GO", "RIGHT_GO">>],
      [type |-> "list", items |-> <<>>],
      [type |-> "list", items |-> <<"LEFT_GO">>],
      [type |-> "list", items |-> <<"RIGHT_GO">>],
      [type |-> "list", items |-> <<"LEFT_GO", "RIGHT_GO">>],
      [type |-> "list", items |-> <<"RIGHT_GO", "LEFT_GO">>] }

NoLabels == [type |-> "list", items |-> <<>>]

\* the arguments of a BCIDecoderDaemon(...) call
CtorArgs ==
    { [status |-> "args", model |-> m, fake_dirs |-> d,
       labels |-> <<>>, label_names |-> NoLabels] :
      m \in ModelFiles, d \in FakeDirs }

\* __init__: the raise statements that come before self.reset()
ArgsError(c) ==
    IF ~fake
    THEN IF ~c.model.loaded THEN "IOError" ELSE "none"
    ELSE IF c.fake_dirs.type # "list" THEN "RuntimeError" ELSE "none"

\* __init__: self.labels
DaemonLabels(c) ==
    IF ~fake THEN c.model.classes_
    ELSE [j \in 1..Len(c.fake_dirs.items) |-> by_key(c.fake_dirs.items[j])]

\* __init__: self.label_names: a dict {name: code} in real mode, a list of
\* names in mock mode
DaemonLabelNames(c) ==
    LET l == DaemonLabels(c)
    IN IF ~fake
       THEN [type |-> "dict", items |-> [j \in 1..Len(l) |-> <<by_value(l[j]), l[j]>>]]
       ELSE [type |-> "list", items |-> [j \in 1..Len(l) |-> by_value(l[j])]]

\* BCIDecoder.__init__ in the worker: self.labels
DecoderLabels(c) == IF ~fake THEN c.model.classes_ ELSE <<11, 9>>

\* BCIDecoder.__init__ in the worker: self.label_names: a list of names on
\* the real path, the dict {'LEFT_GO': 11, 'RIGHT_GO': 9} on the mock path
DecoderLabelNames(c) ==
    LET l == DecoderLabels(c)
    IN IF ~fake
       THEN [type |-> "list", items |-> [j \in 1..Len(l) |-> by_value(l[j])]]
       ELSE [type |-> "dict", items |-> << <<"LEFT_GO", 11>>, <<"RIGHT_GO", 9>> >>]

\* container[i] for an integer i: the entry of a list (IndexError past its
\* end); a dict keyed by names has no integer key and raises KeyError
Subscript(container, i) ==
    IF container.type = "list"
    THEN IF i < Len(container.items) THEN container.items[i + 1] ELSE "IndexError"
    ELSE "KeyError"

\* a constructor that raises only once the worker has been spawned
RaiseAfterStart ==
    /\ gen' = 1
    /\ nlabels' = FakeLabelCount
    /\ probs' = [probs EXCEPT ![1] = Vec(FakeLabelCount, Uniform)]
    /\ pread' = [pread EXCEPT ![1] = NewPread]
    /\ running' = [running EXCEPT ![1] = NewRunning]
    /\ return_psd' = [return_psd EXCEPT ![1] = NewReturnPsd]
    /\ psd' = [psd EXCEPT ![1] = NewPsd]
    /\ proc' = [proc EXCEPT ![1] = "started"]
    /\ wk' = [wk EXCEPT ![1].pc = "init"]
    /\ UNCHANGED <<clientVars, quiet>>

\* __init__: a raise before self.reset(): nothing was allocated or spawned
RaiseBeforeReset == UNCHANGED <<nlabels, gen, sharedVars, proc, wk, clientVars, quiet>>

\* __init__: self.reset(); self.start() for k labels
ResetAndStart(k) ==
    /\ gen' = 1
    /\ nlabels' = k
    /\ probs' = [probs EXCEPT ![1] = Vec(k, Uniform)]
    /\ pread' = [pread EXCEPT ![1] = NewPread]
    /\ running' = [running EXCEPT ![1] = NewRunning]
    /\ return_psd' = [return_psd EXCEPT ![1] = NewReturnPsd]
    /\ psd' = [psd EXCEPT ![1] = NewPsd]
    /\ proc' = [proc EXCEPT ![1] = "started"]
    /\ wk' = [wk EXCEPT ![1].pc = "init"]
    /\ cop' = "start"
    /\ cret' = Ret("started", <<>>)
    /\ UNCHANGED <<cpc, csnap, sinceStart, unreadLog, lastRead, quiet>>

\* BCIDecoderDaemon.__init__; reset() divides 1.0 by len(self.labels) before
\* it allocates anything
DaemonConstruct ==
    /\ ctor.status = "args"
    /\ LET e == ArgsError(ctor)
           l == DaemonLabels(ctor)
       IN IF e # "none"
          THEN /\ ctor' = [ctor EXCEPT !.status = e]
               /\ RaiseBeforeReset
          ELSE IF Len(l) = 0
          THEN /\ ctor' = [ctor EXCEPT !.status = "ZeroDivisionError", !.labels = l,
                                       !.label_names = DaemonLabelNames(ctor)]
               /\ UNCHANGED <<nlabels, gen, sharedVars, proc, wk, clientVars, quiet>>
          ELSE /\ ctor' = [ctor EXCEPT !.status = "ok", !.labels = l,
                                       !.label_names = DaemonLabelNames(ctor)]
               /\ ResetAndStart(Len(l))
    /\ UNCHANGED <<decoderVars, fake, slotVars, mock, ld, dpsd, bal>>

\* the constructor has returned a daemon
Constructed == ctor.status = "ok"

\* a constructor call, then the worker it spawned and a caller that reads
NextConstruct ==
    \/ DaemonConstruct
    \/ WorkerInit(1)
    \/ WorkerInitFails(1)
    \/ WorkerLoopTest(1)
    \/ WorkerWriteProbs(1)
    \/ WorkerClearPread(1)
    \/ WorkerCheckPsd(1)
    \/ Constructed /\ ClientGetProb
    \/ Constructed /\ ClientReadProbs
    \/ Constructed /\ ClientIsRunning

(***************************************************************************)
(* Specifications.                                                         *)
(***************************************************************************)
\* nobody holds the lock of the probability slot and no reader is copying it
SlotIdle == plock = "free" /\ rbuf = <<>>

\* no mock decoder was constructed
NoMock == [status |-> "none", out |-> <<>>]
\* no BCIDecoder was constructed from a model file
NoLd == [status |-> "none"]
\* no get_psd() was called on an in-process decoder
NoPsdCall == Ret("none", <<>>)
\* no BCIDecoderDaemon(...) call is under study
NoCtor == [status |-> "none"]
\* balance_samples was not called
NoBal == [status |-> "none"]
NoLoad == mock = NoMock /\ ld = NoLd /\ dpsd = NoPsdCall /\ ctor = NoCtor /\ bal = NoBal

\* no shared memory was allocated, no worker spawned, no operation called
NoProcesses ==
    /\ gen = 1
    /\ probs = [g \in Gens |-> <<>>]
    /\ pread = [g \in Gens |-> -1]
    /\ running = [g \in Gens |-> -1]
    /\ return_psd = [g \in Gens |-> -1]
    /\ psd = [g \in Gens |-> <<>>]
    /\ proc = [g \in Gens |-> "none"]
    /\ wk = [g \in Gens |-> NoWorker]
    /\ cpc = "idle"
    /\ cop = "none"
    /\ cret = Pending
    /\ csnap = NoSnap
    /\ sinceStart = 0
    /\ quiet = FALSE
    /\ unreadLog = <<>>
    /\ lastRead = <<>>

\* no daemon was constructed
NoDaemon ==
    /\ fake = FALSE
    /\ nlabels = 2
    /\ NoProcesses

\* a BCIDecoder constructed in the caller's process, real path
InitDecoder ==
    /\ buffer_sec \in BufferSecs
    /\ streamTs = 0
    /\ streamLeft = MaxWindows
    /\ dec = NewDecoder
    /\ NoDaemon
    /\ SlotIdle
    /\ NoLoad

NextDecoder == DecoderGetProb \/ DecoderGetPsd

SpecDecoder == InitDecoder /\ [][NextDecoder]_vars

\* BCIDecoderDaemon.__init__: self.reset(); self.start()
Init ==
    /\ fake \in BOOLEAN
    /\ nlabels \in LabelCounts
    /\ buffer_sec \in (IF fake THEN {OneSecond} ELSE DaemonBufferSecs)
    /\ streamTs = 0
    /\ streamLeft = DaemonWindows
    /\ dec = NewDecoder
    /\ SlotIdle
    /\ NoLoad
    /\ gen = 1
    /\ probs = [g \in Gens |-> IF g = 1 THEN NewProbs ELSE <<>>]
    /\ pread = [g \in Gens |-> IF g = 1 THEN NewPread ELSE -1]
    /\ running = [g \in Gens |-> IF g = 1 THEN NewRunning ELSE -1]
    /\ return_psd = [g \in Gens |-> IF g = 1 THEN NewReturnPsd ELSE -1]
    /\ psd = [g \in Gens |-> IF g = 1 THEN NewPsd ELSE <<>>]
    /\ proc = [g \in Gens |-> IF g = 1 THEN "started" ELSE "none"]
    /\ wk = [g \in Gens |-> IF g = 1 THEN [NoWorker EXCEPT !.pc = "init"] ELSE NoWorker]
    /\ cpc = "idle"
    /\ cop = "start"
    /\ cret = Ret("started", <<>>)
    /\ csnap = NoSnap
    /\ sinceStart = 0
    /\ quiet = FALSE
    /\ unreadLog = <<>>
    /\ lastRead = <<>>

Next == Worker \/ Client \/ StreamStalls

Spec == Init /\ [][Next]_vars

\* reset() called by the client itself (it is a public method): it rebinds
\* self.probs, self.pread, self.running, self.return_psd, self.psd and
\* self.proc to new objects whatever the worker is doing; a worker that is
\* alive keeps the objects it was spawned with
ClientReset ==
    /\ cpc = "idle"
    /\ gen < MaxGen
    /\ gen' = gen + 1
    /\ probs' = [Dropped(probs, <<>>) EXCEPT ![gen + 1] = NewProbs]
    /\ pread' = [Dropped(pread, -1) EXCEPT ![gen + 1] = NewPread]
    /\ running' = [Dropped(running, -1) EXCEPT ![gen + 1] = NewRunning]
    /\ return_psd' = [Dropped(return_psd, -1) EXCEPT ![gen + 1] = NewReturnPsd]
    /\ psd' = [Dropped(psd, <<>>) EXCEPT ![gen + 1] = NewPsd]
    /\ proc' = [proc EXCEPT ![gen + 1] = "initial"]
    /\ wk' = Dropped(wk, [NoWorker EXCEPT !.pc = "exited"])
    /\ cop' = "reset"
    /\ cret' = Ret("reset", <<>>)
    /\ csnap' = NoSnap
    /\ sinceStart' = Bump(sinceStart)
    /\ quiet' = FALSE
    /\ unreadLog' = <<>>
    /\ lastRead' = <<>>
    /\ UNCHANGED <<slotVars, loadVars, decoderVars, fake, nlabels, cpc>>

\* the daemon with a client that also calls reset()
NextReset == Next \/ ClientReset

SpecReset == Init /\ [][NextReset]_vars

\* the same daemon with the probability slot accessed entry by entry
SpecSlot == Init /\ [][NextSlot]_vars

\* the decoder a mock daemon of nlabels labels builds in its worker, called
\* for one vector after the other
InitMock ==
    /\ fake = TRUE
    /\ nlabels \in MockLabelCounts
    /\ NoProcesses
    /\ buffer_sec = OneSecond
    /\ streamTs = 0
    /\ streamLeft = 0
    /\ dec = NewDecoder
    /\ SlotIdle
    /\ mock = MadeMock
    /\ ld = NoLd
    /\ dpsd = NoPsdCall
    /\ ctor = NoCtor
    /\ bal = NoBal

NextMock == MockGetProb \/ MockGetPsd

SpecMock == InitMock /\ [][NextMock]_vars

\* a BCIDecoder constructed from a model file, then asked for probabilities
InitLoad ==
    /\ ld \in ModelAndStream
    /\ mock = NoMock
    /\ dpsd = NoPsdCall
    /\ ctor = NoCtor
    /\ bal = NoBal
    /\ buffer_sec = OneSecond
    /\ streamTs = 0
    /\ streamLeft = DaemonWindows
    /\ dec = NewDecoder
    /\ NoDaemon
    /\ SlotIdle

NextLoad == BCIDecoderInit \/ LoadedGetProb

SpecLoad == InitLoad /\ [][NextLoad]_vars

\* BCIDecoderDaemon(...) called with its arguments
InitConstruct ==
    /\ fake \in BOOLEAN
    /\ ctor \in CtorArgs
    /\ nlabels = 0
    /\ NoProcesses
    /\ buffer_sec = OneSecond
    /\ streamTs = 0
    /\ streamLeft = DaemonWindows
    /\ dec = NewDecoder
    /\ SlotIdle
    /\ mock = NoMock
    /\ ld = NoLd
    /\ dpsd = NoPsdCall
    /\ bal = NoBal

SpecConstruct == InitConstruct /\ [][NextConstruct]_vars

\* what the operating system's scheduler and the code's control flow give:
\* a worker process that can take a step takes it, and a stop() that waits
\* in join() goes on when join() returns
FairSpec ==
    /\ Init /\ [][Next]_vars
    /\ \A g \in Gens : WF_vars(WorkerInit(g) \/ WorkerInitFails(g) \/ WorkerLoopTest(g)
                               \/ WorkerWriteProbs(g)
                               \/ WorkerClearPread(g) \/ WorkerCheckPsd(g)
                               \/ WorkerCopyPsd(g) \/ WorkerClearReturnPsd(g))
    /\ WF_vars(ClientStopJoinReset)
    /\ WF_vars(ClientPsdPoll)

(***************************************************************************)
(* Properties of the in-process decoder (checked under SpecDecoder).       *)
(***************************************************************************)
Last(q) == q[Len(q)]

\* C1: after each real-path cycle, for every configured buffer_size, the
\* newest buffered timestamp minus the oldest is at most buffer_size.
C1_BufferBound ==
    Len(dec.ts_buffer) > 0 => Last(dec.ts_buffer) - dec.ts_buffer[1] <= buffer_sec

\* C2: a cycle leaves exactly the previously buffered frames plus the new one,
\* minus those more than buffer_size older than the newest timestamp, for
\* every buffer_size.
C2_EvictionExact ==
    [][DecoderGetProb =>
         LET ts == streamTs'
             InReach(t) == ts - t <= buffer_sec
             allTs == Append(dec.ts_buffer, ts)
             allPsd == Append(dec.psd_buffer, dec.cycles + 1)
             keep == SelectSeq(allTs, InReach)
         IN /\ dec'.ts_buffer = keep
            /\ dec'.psd_buffer = SubSeq(allPsd, Len(allPsd) - Len(keep) + 1, Len(allPsd))
      ]_vars

\* C3: in every state of a real-path BCIDecoder psd_buffer holds as many
\* frames as ts_buffer holds timestamps.
C3_LengthConsistency == Len(dec.psd_buffer) = Len(dec.ts_buffer)

\* a cycle has evicted frames and more than one frame is left
C3_Witness == dec.cycles > Len(dec.ts_buffer) /\ Len(dec.ts_buffer) > 1

(***************************************************************************)
(* Properties of the daemon (checked under Spec, C10 under FairSpec).      *)
(***************************************************************************)
ClientReturned(op) == cpc = "idle" /\ cop = op

\* C4: get_prob_unread() returns each vector the worker wrote at most once,
\* under every interleaving of worker and reader steps.  (A mock worker's
\* tags repeat from MaxCycles on; those are left out.)
C4_ReturnedAtMostOnce ==
    (Len(unreadLog) = 2 /\ ~(fake /\ unreadLog[2][1][2] >= MaxCycles))
        => unreadLog[1] # unreadLog[2]

C6_UnreadAfterCycle ==
    (ClientReturned("get_prob_unread") /\ csnap.quiet) =>
        /\ cret.kind = "vec"
        /\ cret.val[1][1] = gen
        /\ cret.val[1][2] >= csnap.pub

\* such a call returned the vector of a second or later cycle
C6_Witness ==
    /\ ClientReturned("get_prob_unread") /\ csnap.quiet
    /\ cret.kind = "vec" /\ cret.val[1][2] >= 2

\* C7: after stop() has returned, without error, is_running() is false, in
\* every state in which stop() can be called.
C7_StoppedAfterStop ==
    ClientReturned("stop") =>
        /\ cret.kind \in {"stopped", "already_stopped"}
        /\ running[gen] = 0

\* C8: start() on a daemon whose worker has been started does not raise and
\* spawns nothing.
C8_StartOnStartedIsNoop ==
    ClientReturned("start") => cret.kind \in {"started", "already_running"}

\* C9: when stop() returns from a Running daemon the worker has exited, the
\* running flag is false, the shared state holds its initial values with a
\* new process object that was not started, and no get_prob() or
\* get_prob_unread() returns a vector of an earlier run.
C9_StopReallocates ==
    /\ (ClientReturned("stop") /\ cret.kind = "stopped") =>
          /\ gen > 1
          /\ proc[gen - 1] = "exited"
          /\ running[gen] = 0
          /\ probs[gen] = Vec(nlabels, Uniform)
          /\ pread[gen] = 1
          /\ return_psd[gen] = 0
          /\ proc[gen] = "initial"
    /\ ((ClientReturned("get_prob") \/ ClientReturned("get_prob_unread"))
            /\ cret.kind = "vec") =>
          \A i \in 1..Len(cret.val) : cret.val[i][1] \in {0, gen}

\* stop() returned after it had found the daemon Running
C9_Witness ==
    ClientReturned("stop") /\ cret.kind = "stopped" /\ gen > 1

\* the worker waits in sr.acquire() for a window the stream never delivers
WorkerBlocked(g) ==
    /\ ~fake
    /\ proc[g] = "started"
    /\ wk[g].pc = "decode"
    /\ streamLeft = 0

\* C10 as stated: stop() returns even if the worker never completes its
\* current decode cycle.
C10_StopAlwaysReturns == (cpc = "stop_join") ~> (cpc = "idle")

\* C10 as amended: join() has no timeout; stop() returns once the worker has
\* finished its cycle in flight and left its loop, and does not return while
\* the worker waits for a window.
C10_StopReturnsUnlessBlocked ==
    (cpc = "stop_join") ~> (cpc = "idle" \/ WorkerBlocked(gen))

\* join() is about to return: the worker published, saw the flag and exited
C10_Witness ==
    cpc = "stop_join" /\ proc[gen] = "exited" /\ wk[gen].pub >= 1

WholeVector(v) ==
    \/ v = NewProbs
    \/ \E n \in 1..MaxCycles : v = Vec(nlabels, Tag(gen, n))

C12_NoTornVector ==
    /\ (cpc = "idle" /\ cret.kind = "vec") => WholeVector(cret.val)
    /\ (cpc = "r_copy" /\ Len(rbuf) = Len(probs[gen])) => WholeVector(rbuf)

\* the reader has copied the whole vector of the first cycle out of the slot
\* while the worker, its second vector computed, waits for the lock
C12_Witness ==
    /\ cpc = "r_copy"
    /\ rbuf = Vec(nlabels, Tag(gen, 1))
    /\ plock = "client"
    /\ wk[gen].pc = "decode"
    /\ fake \/ streamLeft > 0

(***************************************************************************)
(* Feature-frame requests.                                                 *)
(***************************************************************************)
\* a get_psd() has set the request flag and the worker has not cleared it
PsdRequestPending == cpc = "psd_poll" /\ return_psd[gen] = 1

\* the pending request is at most one cycle old: the worker has computed at
\* most one cycle since the flag was set, and is still inside that cycle
ServedWithinCycle ==
    /\ wk[gen].dec.cycles <= csnap.cyc + 1
    /\ wk[gen].dec.cycles = csnap.cyc + 1 =>
           wk[gen].pc \in {"clear", "check_psd", "copy", "clear_psd"}

\* a frame all of whose entries one completed cycle of the worker computed
CompleteFrame(v) ==
    \E n \in 1..wk[gen].dec.cycles : v = Vec(PsdSize, Tag(gen, n))

(***************************************************************************)
(* C13: on a running real-mode daemon whose cycles keep completing, every  *)
(* get_psd() returns: the worker clears the request flag no later than the *)
(* end of the cycle that follows the request, and the slot get_psd()       *)
(* returns holds the complete feature frame of one completed cycle.        *)
(***************************************************************************)
C13_GetPsdReturnsFrame ==
    /\ []((~fake /\ proc[gen] = "started" /\ PsdRequestPending) => ServedWithinCycle)
    /\ []((~fake /\ ClientReturned("get_psd")) =>
              (cret.kind = "psd" /\ CompleteFrame(cret.val)))
    /\ (~fake /\ cpc = "psd_poll")
           ~> (cpc = "idle" \/ WorkerBlocked(gen) \/ proc[gen] # "started")

\* a request set after the first cycle was answered with the second cycle's frame
C13_Witness ==
    /\ ~fake
    /\ ClientReturned("get_psd")
    /\ csnap.cyc = 1
    /\ cret.val = Vec(PsdSize, Tag(gen, 2))

(***************************************************************************)
(* C14: the same in mock mode: on a running mock daemon the worker clears  *)
(* a feature-frame request within one cycle, so that get_psd() returns.    *)
(***************************************************************************)
C14_MockPsdRequestServed ==
    (fake /\ proc[gen] = "started" /\ PsdRequestPending) => ServedWithinCycle

(***************************************************************************)
(* C15: in mock mode with k >= 2 labels every worker cycle computes a      *)
(* vector of length k, stores it in the shared slot, and the worker keeps  *)
(* running (it ends only when the running flag is cleared).                *)
(***************************************************************************)
C15_MockVectorOfKLabels ==
    (fake /\ wk[gen].dec.cycles >= 1) =>
        /\ Len(wk[gen].val) = nlabels
        /\ probs[gen] = wk[gen].val
        /\ running[gen] = 1 => proc[gen] = "started"

(***************************************************************************)
(* C16: every probability vector handed out has as many entries as there   *)
(* are labels: what get_prob() and a non-None get_prob_unread() of the     *)
(* daemon return, in every daemon state, has len(BCIDecoderDaemon.labels)  *)
(* entries, and what BCIDecoder.get_prob() returns to the worker has       *)
(* len(BCIDecoder.labels) entries.                                         *)
(***************************************************************************)
C16_VectorLength ==
    /\ cret.kind = "vec" => Len(cret.val) = nlabels
    /\ \A g \in Gens : wk[g].dec.cycles >= 1 => Len(wk[g].val) = DecoderLabelCount

\* get_prob() on a daemon that was stopped returned the fresh slot
C16_Witness ==
    /\ ClientReturned("get_prob")
    /\ cret.kind = "vec"
    /\ Len(cret.val) = nlabels
    /\ gen > 1
    /\ proc[gen] = "initial"

(***************************************************************************)
(* C17: the mock decoder's distribution.  For a label set of k >= 2 labels *)
(* the mock cycle returns k numbers: the first in [0, 1), every other one  *)
(* equal to (1 - first) / (k - 1); with 4 labels the last three are equal  *)
(* to (1 - first) / 3.                                                     *)
(***************************************************************************)
C17_MockDistribution ==
    mock.status = "called" =>
        /\ Len(mock.out) = nlabels
        /\ ~RatLess(mock.out[1], <<0, 1>>)
        /\ RatLess(mock.out[1], <<1, 1>>)
        /\ \A i \in 2..nlabels :
               RatEq(mock.out[i], RatDivInt(OneMinus(mock.out[1]), nlabels - 1))

(***************************************************************************)
(* Properties of BCIDecoder.__init__ (checked under SpecLoad).             *)
(***************************************************************************)
\* entry j of the mapped list is an index of the stream whose channel has
\* the name the model gives to entry j of the model's list
MappedByName(out, idx) ==
    /\ Len(out) = Len(idx)
    /\ \A j \in 1..Len(idx) :
          /\ out[j] \in 0..(Len(ld.ch_names) - 1)
          /\ ld.ch_names[out[j] + 1] = ld.model.ch_names[idx[j] + 1]

\* the same for an attribute that may be None: None stays None
OptionalMappedByName(out, x) ==
    IF x = <<>> THEN out = <<>>
    ELSE out # <<>> /\ MappedByName(out[1], x[1])

(***************************************************************************)
(* C18: channel mapping by name.  In a decoder that was constructed, every *)
(* pick of the model is the index of the stream channel of the same name,  *)
(* in the order of the model's pick list (picks C3, C4, Cz against the     *)
(* stream Cz, C3, C4, Fp1 give 1, 2, 0), and so are the spatial, spectral, *)
(* notch and reference channels when they are set.                         *)
(***************************************************************************)
C18_ChannelsMappedByName ==
    ld.status = "ok" =>
        /\ MappedByName(ld.mapped.picks, ld.model.picks)
        /\ OptionalMappedByName(ld.mapped.spatial_ch, ld.model.spatial_ch)
        /\ OptionalMappedByName(ld.mapped.spectral_ch, ld.model.spectral_ch)
        /\ OptionalMappedByName(ld.mapped.notch_ch, ld.model.notch_ch)
        /\ MappedByName(ld.mapped.ref_new, ld.model.ref_new)
        /\ MappedByName(ld.mapped.ref_old, ld.model.ref_old)
        /\ (/\ ld.model.ch_names = <<"C3", "C4", "Cz">>
            /\ ld.model.picks = <<0, 1, 2>>
            /\ ld.ch_names = <<"Cz", "C3", "C4", "Fp1">>) => ld.mapped.picks = <<1, 2, 0>>

\* a model with spatial, spectral, notch and reference channels was loaded
\* against a stream that lists the channels in another order
C18_Witness ==
    /\ ld.status = "ok"
    /\ ld.model.ch_names = <<"Fp1", "C3", "C4", "Cz">>
    /\ ld.ch_names = <<"Cz", "C3", "C4", "Fp1">>
    /\ ld.mapped.picks = <<1, 0>>
    /\ ld.mapped.spatial_ch = << <<1, 2, 0>> >>
    /\ ld.mapped.ref_new = <<3>>

(***************************************************************************)
(* C19: a model is accepted at load time only if                           *)
(* round(sampling_rate * window_seconds) = window_frames: the constructor  *)
(* rejects every model whose rounded product differs from window_frames    *)
(* and lets every model pass whose rounded product equals it.              *)
(***************************************************************************)
FramesRejected == ld.status = "RuntimeError: w_frames"

C19_RoundedProductChecked ==
    ld.status # "model" =>
        (FramesRejected <=> WindowFramesRounded(ld.sfreq, ld.w_ms) # ld.w_frames)

\* C19, as the code has it: the constructor rejects a model exactly when the
\* product with its fractional part dropped differs from window_frames
C19_TruncatedProductChecked ==
    ld.status # "model" =>
        (FramesRejected <=> (ld.sfreq * ld.w_ms) \div 1000 # ld.w_frames)

\* a model whose product 512 * 0.3 = 153.6 is stored as 153 frames was loaded
C19_Witness ==
    /\ ld.status = "ok"
    /\ (ld.sfreq * ld.w_ms) % 1000 > 500
    /\ ld.w_frames = (ld.sfreq * ld.w_ms) \div 1000

(***************************************************************************)
(* C20: if the stream's sampling rate differs from the model's, the        *)
(* construction of the BCIDecoder fails with an error and is not tried     *)
(* again: no feature buffer is created and no cycle ever runs.             *)
(***************************************************************************)
C20_RateMismatchIsFatal ==
    /\ []((ld.status \notin {"none", "model"} /\ ld.sfreq # ld.sample_rate) =>
              /\ ld.status \in {"RuntimeError: w_frames", "RuntimeError: sampling rate"}
              /\ ~ld.psd_buffer
              /\ dec = NewDecoder)
    /\ [][(ld.status \notin {"none", "model", "ok"}) => ld' = ld]_vars

\* the constructor raised on a model that differs from the stream in the
\* sampling rate only
C20_Witness ==
    /\ ld.status = "RuntimeError: sampling rate"
    /\ ld.sfreq # ld.sample_rate
    /\ ~NameMissing(MappedChannels(ld.model, ld.ch_names))

(***************************************************************************)
(* C21: when the worker's initialisation fails, the daemon surfaces it as  *)
(* a start failure: the start() that spawned the worker has not returned   *)
(* normally, leaving a daemon that silently never runs.                    *)
(***************************************************************************)
C21_InitFailureSurfaces ==
    wk[gen].pc = "init_failed" => ~(cpc = "idle" /\ cop = "start" /\ cret.kind = "started")

(***************************************************************************)
(* C22: get_psd() of a BCIDecoder before any cycle has completed (an empty *)
(* buffer on the real path, or a mock decoder) fails with the one          *)
(* condition that reports an empty buffer and returns no frame.            *)
(***************************************************************************)
\* what indexing the empty buffer raises
BufferEmpty == "IndexError"

C22_BufferEmptyReported ==
    /\ (mock.status # "none" /\ dpsd.kind # "none") => dpsd.kind = BufferEmpty
    /\ (mock.status = "none" /\ dpsd.kind = "frame") => dec.psd_buffer # <<>>
    /\ (mock.status = "none" /\ dec.psd_buffer = <<>> /\ dpsd.kind # "none")
           => dpsd.kind = BufferEmpty

(***************************************************************************)
(* Properties of BCIDecoderDaemon.__init__ (checked under SpecConstruct).  *)
(***************************************************************************)
\* entry i of the names is the name of entry i of the labels
NamesAligned(labels, names) ==
    \A i \in 1..Len(labels) : Subscript(names, i - 1) = by_value(labels[i])

(***************************************************************************)
(* C23: label names are index-aligned with labels.  For the daemon and for *)
(* the decoder its worker builds, in real and in mock mode,                *)
(* get_label_names()[i] is the name of get_labels()[i] for every i, and    *)
(* entry i of the probability vector, which the decoder computes for its   *)
(* label i, is handed out under the daemon's label i.                      *)
(***************************************************************************)
C23_LabelNamesAligned ==
    Constructed =>
        /\ NamesAligned(ctor.labels, ctor.label_names)
        /\ NamesAligned(DecoderLabels(ctor), DecoderLabelNames(ctor))
        /\ ctor.labels = DecoderLabels(ctor)

(***************************************************************************)
(* C24: a configuration error at daemon construction (a model file that    *)
(* cannot be loaded in real mode, a fake_dirs that is not a list in mock   *)
(* mode) raises before any shared state is allocated and before any worker *)
(* is spawned.                                                             *)
(***************************************************************************)
ConfigurationError ==
    IF fake THEN ctor.fake_dirs.type # "list" ELSE ~ctor.model.loaded

C24_ConfigErrorBeforeAllocation ==
    (ctor.status \notin {"none", "args"} /\ ConfigurationError) =>
        /\ ctor.status \in {"IOError", "RuntimeError"}
        /\ \A g \in Gens : /\ probs[g] = <<>>
                           /\ psd[g] = <<>>
                           /\ pread[g] = -1
                           /\ running[g] = -1
                           /\ return_psd[g] = -1
                           /\ proc[g] = "none"
                           /\ wk[g] = NoWorker

\* the constructor has raised on a tuple given for fake_dirs
C24_Witness ==
    /\ fake
    /\ ctor.status = "RuntimeError"
    /\ ctor.fake_dirs.type = "tuple"
    /\ proc[1] = "none"

(***************************************************************************)
(* C25: a mock daemon needs at least 2 labels: the constructor rejects a   *)
(* fake_dirs list of fewer than 2 labels, and such a daemon never reaches  *)
(* the running state.                                                      *)
(***************************************************************************)
C25_MockNeedsTwoLabels ==
    (/\ fake
     /\ ctor.status \notin {"none", "args"}
     /\ ctor.fake_dirs.type = "list"
     /\ Len(ctor.fake_dirs.items) < 2) =>
        /\ ctor.status # "ok"
        /\ \A g \in Gens : running[g] # 1

(***************************************************************************)
(* C26: at most one worker process of a daemon is alive at any time, after *)
(* any sequence of construction, start(), stop() and reader calls: start() *)
(* spawns the one process object reset() made, a second self.proc.start()  *)
(* on it raises, and stop() makes the next process object only after       *)
(* self.proc.join() has returned.                                          *)
(***************************************************************************)
AliveWorkers == {g \in Gens : proc[g] = "started"}

C26_AtMostOneWorkerAlive == Cardinality(AliveWorkers) <= 1

\* a second worker runs its loop after the first one was stopped and joined
C26_Witness ==
    /\ gen = 2
    /\ proc[1] = "exited"
    /\ AliveWorkers = {2}
    /\ wk[2].pc = "decode"

(***************************************************************************)
(* C27: stop latency is one decode cycle.  After stop() has stored 0 in    *)
(* the running flag the worker writes the probability slot at most once    *)
(* more (the cycle in flight), never begins another cycle, and leaves its  *)
(* loop once the cycle in flight is over (while it waits for a window that *)
(* never comes the cycle in flight is not over).                           *)
(***************************************************************************)
BeginsCycle(g) == wk[g].pc = "loop" /\ wk'[g].pc = "decode"

C27_StopLatencyOneCycle ==
    /\ [](\A g \in Gens : wk[g].late <= 1)
    /\ [][\A g \in Gens : BeginsCycle(g) => running[g] = 1]_vars
    /\ (cpc = "stop_join") ~> (proc[gen] = "exited" \/ WorkerBlocked(gen))

\* stop() cleared the flag in the middle of a cycle: the worker wrote the slot
\* once more, saw the flag at its next test and has left the loop
C27_Witness ==
    /\ cpc = "stop_join"
    /\ wk[gen].late = 1
    /\ wk[gen].pc = "exited"
    /\ proc[gen] = "exited"

(***************************************************************************)
(* C28: the running flag is cleared when the worker exits: an is_running() *)
(* called when the worker of the current process object has exited, after  *)
(* a stop or after a fault inside a cycle, returns false.                  *)
(***************************************************************************)
C28_ExitedWorkerNotRunning ==
    [][(ClientIsRunning /\ proc[gen] = "exited") => cret'.val = <<0>>]_vars

(***************************************************************************)
(* C29: the reader-facing operations get_prob(), get_prob_unread(),        *)
(* get_psd() and is_running() never modify the probability slot, the       *)
(* feature-frame slot or the running flag; of the shared items they write  *)
(* only the unread flag, storing 1 (read), and the feature-request flag,   *)
(* storing 1 (requested).                                                  *)
(***************************************************************************)
ReaderStep ==
    \/ ClientGetProb
    \/ ClientReadProbs
    \/ ClientGetProbUnread
    \/ ClientUnreadSetPread
    \/ ClientGetPsd
    \/ ClientPsdPoll
    \/ ClientIsRunning

ReaderFrame ==
    /\ probs' = probs
    /\ psd' = psd
    /\ running' = running
    /\ pread' = pread \/ pread' = [pread EXCEPT ![gen] = 1]
    /\ return_psd' = return_psd \/ return_psd' = [return_psd EXCEPT ![gen] = 1]
    /\ gen' = gen
    /\ proc' = proc

C29_ReadersWriteOnlyFlags == [][ReaderStep => ReaderFrame]_vars

\* get_prob() and then get_psd() returned within one cycle of a running real
\* worker: both flags were written by the reader, both slots hold what the
\* worker put there
C29_Witness ==
    /\ ~fake
    /\ cpc = "idle"
    /\ cop = "get_psd"
    /\ cret.kind = "psd"
    /\ running[gen] = 1
    /\ pread[gen] = 1
    /\ return_psd[gen] = 0
    /\ probs[gen] = Vec(nlabels, Tag(gen, 1))
    /\ psd[gen] = Vec(PsdSize, Tag(gen, 1))

(***************************************************************************)
(* C30: the order inside one iteration of the worker.  It completes a      *)
(* decode cycle and writes the probability slot, then clears the unread    *)
(* flag, and only after that, and only if the feature-request flag is set, *)
(* copies the latest feature frame into the feature slot; it clears the    *)
(* request flag when the copy is complete.  The worker never writes the    *)
(* feature slot while the request flag is clear.                           *)
(***************************************************************************)
\* the steps of the worker of allocation g, seen on the shared state
WritesProbs(g) == gen' = gen /\ probs'[g] # probs[g]
ClearsPread(g) == gen' = gen /\ pread[g] = 1 /\ pread'[g] = 0
WritesPsd(g) == gen' = gen /\ psd'[g] # psd[g]
ClearsReturnPsd(g) == gen' = gen /\ return_psd[g] = 1 /\ return_psd'[g] = 0

\* the latest feature frame of the worker's decoder
LatestFrame(g) == wk[g].dec.psd_buffer[Len(wk[g].dec.psd_buffer)]

\* the cycle the worker completed last has been published: its vector is in
\* the probability slot and the unread flag was cleared after it
CyclePublished(g) ==
    /\ wk[g].dec.cycles >= 1
    /\ probs[g] = wk[g].val
    /\ wk[g].pub = wk[g].dec.cycles

IterationOrder(g) ==
    /\ WritesProbs(g) =>
           /\ wk'[g].dec.cycles = wk[g].dec.cycles + 1 \/ fake
           /\ probs'[g] = wk'[g].val
           /\ wk[g].pc = "decode" /\ wk'[g].pc = "clear"
    /\ ClearsPread(g) =>
           /\ probs[g] = wk[g].val
           /\ wk[g].pc = "clear"
           /\ psd'[g] = psd[g] /\ return_psd'[g] = return_psd[g]
    /\ WritesPsd(g) =>
           /\ ~fake
           /\ return_psd[g] = 1 /\ return_psd'[g] = 1
           /\ CyclePublished(g)
           /\ \E i \in 1..PsdSize : psd'[g] = [psd[g] EXCEPT ![i] = LatestFrame(g)]
    /\ ClearsReturnPsd(g) =>
           /\ ~fake
           /\ CyclePublished(g)
           /\ psd[g] = Vec(PsdSize, LatestFrame(g))
           /\ psd'[g] = psd[g]

C30_WorkerIterationOrder == [][\A g \in Gens : IterationOrder(g)]_vars

\* the worker has served a request made during its first cycle: the second
\* cycle's vector is in the probability slot, the unread flag is clear, the
\* second cycle's frame is complete in the feature slot and the request flag
\* has just been cleared, while the reader is still in get_psd()
C30_Witness ==
    /\ ~fake
    /\ proc[gen] = "started"
    /\ wk[gen].pc = "loop"
    /\ cpc = "psd_poll"
    /\ csnap.cyc = 1
    /\ probs[gen] = Vec(nlabels, Tag(gen, 2))
    /\ pread[gen] = 0
    /\ psd[gen] = Vec(PsdSize, Tag(gen, 2))
    /\ return_psd[gen] = 0

(***************************************************************************)
(* C31: misuse is a no-op.  stop() on a daemon whose running flag is 0     *)
(* returns at once and leaves every item of the shared state and the       *)
(* process object as they are (nothing is allocated, nothing is joined);   *)
(* start() on a daemon whose running flag is 1, or whose process object    *)
(* was started already, leaves them as they are.                           *)
(***************************************************************************)
DaemonUntouched == UNCHANGED <<gen, sharedVars, proc, wk>>

C31_MisuseIsNoop ==
    [][/\ (ClientStop /\ running[gen] = 0) => (DaemonUntouched /\ cpc' = "idle")
       /\ (ClientStart /\ (running[gen] = 1 \/ proc[gen] # "initial")) => DaemonUntouched]_vars

\* a second stop() right after a stop() that ended a run: the new allocation
\* is as reset() made it
C31_Witness ==
    /\ ClientReturned("stop")
    /\ cret.kind = "already_stopped"
    /\ gen = 2
    /\ proc[gen] = "initial"
    /\ probs[gen] = NewProbs
    /\ pread[gen] = NewPread

(***************************************************************************)
(* C32: as long as the window source supplies strictly increasing leading  *)
(* timestamps from cycle to cycle, ts_buffer is strictly increasing after  *)
(* every cycle, the cycles that evict included.                            *)
(***************************************************************************)
StrictlyIncreasing(q) == \A i \in 1..(Len(q) - 1) : q[i] < q[i + 1]

C32_TimestampsStrictlyIncreasing == dec.strict => StrictlyIncreasing(dec.ts_buffer)

\* after a cycle that evicted, with several timestamps left
C32_Witness ==
    /\ dec.strict
    /\ dec.cycles > Len(dec.ts_buffer)
    /\ Len(dec.ts_buffer) >= 3

(***************************************************************************)
(* C33: every real-path cycle appends exactly one frame and one timestamp  *)
(* before it evicts, also when the window's leading timestamp has not      *)
(* advanced since the cycle before; the buffer then holds that timestamp   *)
(* twice.  The decoder neither rejects nor skips such a cycle.             *)
(***************************************************************************)
\* q is what is left of p after the first k entries were evicted
SuffixFrom(q, p, k) == q = SubSeq(p, k + 1, Len(p))

\* the window read in this cycle has the leading timestamp of the one before
StaleWindow == Len(dec.ts_buffer) > 0 /\ streamTs' = dec.ts_buffer[Len(dec.ts_buffer)]

C33_EveryCycleAppends ==
    [][DecoderGetProb =>
         LET allTs == Append(dec.ts_buffer, streamTs')
             allPsd == Append(dec.psd_buffer, dec.cycles + 1)
             n == Len(dec'.ts_buffer)
         IN /\ dec'.cycles = dec.cycles + 1
            /\ \E k \in 0..Len(dec.ts_buffer) :
                  /\ SuffixFrom(dec'.ts_buffer, allTs, k)
                  /\ SuffixFrom(dec'.psd_buffer, allPsd, k)
            /\ StaleWindow =>
                  /\ n >= 2
                  /\ dec'.ts_buffer[n - 1] = dec'.ts_buffer[n]
                  /\ dec'.psd_buffer[n - 1] # dec'.psd_buffer[n]
      ]_vars

\* two frames of different cycles are buffered under the same timestamp, after
\* a cycle that evicted
C33_Witness ==
    LET n == Len(dec.ts_buffer)
    IN /\ n >= 2
       /\ dec.ts_buffer[n - 1] = dec.ts_buffer[n]
       /\ dec.psd_buffer[n] = dec.cycles
       /\ dec.psd_buffer[n - 1] = dec.cycles - 1
       /\ dec.cycles > n

(***************************************************************************)
(* C34: whenever the unread flag of the current allocation is 0, the       *)
(* probability slot holds the vector of a completed cycle of the current   *)
(* run's worker; so get_prob_unread() never returns the uniform            *)
(* placeholder of reset() nor a vector of a run that was stopped.          *)
(***************************************************************************)
\* v is the vector of a completed cycle of the worker of the current run
CurrentRunVector(v) ==
    \E n \in 1..wk[gen].dec.cycles : v = Vec(Len(NewProbs), Tag(gen, n))

C34_UnreadMeansCurrentRun ==
    /\ pread[gen] = 0 => CurrentRunVector(probs[gen])
    /\ (ClientReturned("get_prob_unread") /\ cret.kind = "vec") => CurrentRunVector(cret.val)

\* in the second run get_prob_unread() returned the first vector of that run
C34_Witness ==
    /\ gen = 2
    /\ ClientReturned("get_prob_unread")
    /\ cret.kind = "vec"
    /\ cret.val = Vec(Len(NewProbs), Tag(2, 1))
    /\ pread[gen] = 0

(***************************************************************************)
(* C35: no lost update on the unread flag, under every interleaving of one *)
(* reader with the worker.  A reader's store of 1 never hides a vector the *)
(* reader did not return: when the worker is not between its slot write    *)
(* and its flag clear, and the reader is not inside get_prob() or          *)
(* get_prob_unread(), a vector in the slot that no read returned has the   *)
(* flag at 0, so that the next get_prob_unread() goes on to read.          *)
(***************************************************************************)
WorkerQuiescent == wk[gen].pc # "clear"
ReaderQuiescent == cpc \notin {"gpu_set", "gp_read"}

\* the worker's latest write is in the slot and no read has returned it
LatestWriteNotReturned ==
    /\ CurrentRunVector(probs[gen])
    /\ lastRead # probs[gen]

C35_NoLostUpdate ==
    /\ []((WorkerQuiescent /\ ReaderQuiescent /\ LatestWriteNotReturned) => pread[gen] = 0)
    /\ [][(ClientGetProbUnread /\ WorkerQuiescent /\ LatestWriteNotReturned)
              => cpc' = "gpu_set"]_vars

\* the reader returned the first vector, the worker has since published the
\* second and the flag says so
C35_Witness ==
    /\ WorkerQuiescent
    /\ ClientReturned("get_prob_unread")
    /\ lastRead = Vec(Len(NewProbs), Tag(gen, 1))
    /\ probs[gen] = Vec(Len(NewProbs), Tag(gen, 2))
    /\ pread[gen] = 0

(***************************************************************************)
(* C36: after any sequence of start(), stop() and reset() calls every live *)
(* worker reads the running flag that the daemon's stop() writes: no call  *)
(* sequence leaves a worker alive that stop() can no longer reach.         *)
(***************************************************************************)
C36_LiveWorkerReadsDaemonFlag == \A g \in Gens : proc[g] = "started" => g = gen

(***************************************************************************)
(* C37: after every real-path cycle (the stream's timestamps never go      *)
(* back) the buffer is not empty and its last entry is the frame computed  *)
(* in that cycle, under its timestamp: eviction never removes the newest   *)
(* frame, so psd_buffer[-1], which get_psd() returns and the worker copies *)
(* into the feature slot, is the frame classified in the cycle that just   *)
(* completed.                                                              *)
(***************************************************************************)
NewestFrameIsLast ==
    dec.cycles >= 1 =>
        /\ Len(dec.psd_buffer) >= 1
        /\ dec.psd_buffer[Len(dec.psd_buffer)] = dec.cycles
        /\ dec.ts_buffer[Len(dec.ts_buffer)] = streamTs

C37_NewestFrameKept ==
    /\ []NewestFrameIsLast
    /\ [][(DecoderGetPsd /\ dec.cycles >= 1) => dpsd' = Ret("frame", <<dec.cycles>>)]_vars

\* get_psd() after a cycle that evicted all older frames but one
C37_Witness ==
    /\ dec.cycles >= 3
    /\ Len(dec.psd_buffer) = 2
    /\ dpsd = Ret("frame", <<dec.cycles>>)

(***************************************************************************)
(* C38: with a single reader the feature-frame slot changes only between a *)
(* get_psd() setting the request flag and the worker clearing it: the      *)
(* frame a get_psd() returned is not modified by later cycles of the       *)
(* worker until the reader issues the next request.                        *)
(***************************************************************************)
\* the reader is inside get_psd() and the worker has not cleared its request
RequestOpen(g) == g = gen /\ cpc = "psd_poll" /\ return_psd[g] = 1

C38_FrameStableBetweenRequests ==
    /\ []((ClientReturned("get_psd") /\ cret.kind = "psd") => psd[gen] = cret.val)
    /\ [][\A g \in Gens : WritesPsd(g) => RequestOpen(g)]_vars

\* the worker has completed and published another cycle since get_psd()
\* returned the first cycle's frame, and the slot still holds that frame
C38_Witness ==
    /\ ~fake
    /\ ClientReturned("get_psd")
    /\ cret = Ret("psd", Vec(PsdSize, Tag(gen, 1)))
    /\ wk[gen].pub = 2
    /\ wk[gen].pc = "loop"
    /\ psd[gen] = Vec(PsdSize, Tag(gen, 1))

(***************************************************************************)
(* trainer.balance_samples(X, Y, balance_type).  Y is the sequence of the  *)
(* samples' labels; sample i of X is written i, so that X[idx] is idx and  *)
(* an entry of X_balanced names the input sample it is a copy of.          *)
(***************************************************************************)
\* the longest sample set a call is made with
MaxSamples == 5
\* the class labels the samples carry
SampleLabels == {9, 11, 13}
BalanceTypes == {"OVER", "UNDER"}

\* np.unique(Y): the distinct labels in ascending order
RECURSIVE Ascending(_)
Ascending(S) ==
    IF S = {} THEN <<>>
    ELSE LET m == CHOOSE x \in S : \A y \in S : x <= y
         IN <<m>> \o Ascending(S \ {m})

unique(Y) == Ascending({Y[i] : i \in 1..Len(Y)})

\* np.where(Y == c)[0]: the positions of the samples of class c, ascending
where(Y, c) ==
    LET positions == [i \in 1..Len(Y) |-> i]
        OfClass(i) == Y[i] = c
    IN SelectSeq(positions, OfClass)

\* for c in label_set: yl = np.where(Y == c)[0];
\*     if len(max_set) == 0 or len(yl) > max_set[1]: max_set = [c, len(yl)]
RECURSIVE FindMax(_, _, _)
FindMax(label_set, Y, max_set) ==
    IF label_set = <<>> THEN max_set
    ELSE LET c == Head(label_set)
             n == Len(where(Y, c))
         IN FindMax(Tail(label_set), Y,
                    IF Len(max_set) = 0 \/ n > max_set[2] THEN <<c, n>> ELSE max_set)

\* the same with len(yl) < min_set[1]
RECURSIVE FindMin(_, _, _)
FindMin(label_set, Y, min_set) ==
    IF label_set = <<>> THEN min_set
    ELSE LET c == Head(label_set)
             n == Len(where(Y, c))
         IN FindMin(Tail(label_set), Y,
                    IF Len(min_set) = 0 \/ n < min_set[2] THEN <<c, n>> ELSE min_set)

\* a draw that is one sample short
ChoiceOneShort(yl, n) == [1..(n - 1) -> {yl[k] : k \in 1..Len(yl)}]
\* np.random.choice(yl, n): n draws from yl, with replacement
Choice(yl, n) == [1..n -> {yl[k] : k \in 1..Len(yl)}]

\* Y[idx]
Take(Y, idx) == [k \in 1..Len(idx) |-> Y[idx[k]]]

\* the calls under study: every labelling of 1..MaxSamples samples
BalanceCalls ==
    {[status |-> "called", Y |-> Y, balance_type |-> t, ref_set |-> <<>>, todo |-> <<>>,
      X_balanced |-> <<>>, Y_balanced |-> <<>>] :
        Y \in UNION {[1..n -> SampleLabels] : n \in 1..MaxSamples}, t \in BalanceTypes}

\* balance_samples up to its second loop: label_set, max_set or min_set, and
\* the first content of X_balanced, Y_balanced (all of X, Y for 'OVER', the
\* samples of the smallest class for 'UNDER')
BalanceBegin ==
    /\ bal.status = "called"
    /\ LET label_set == unique(bal.Y)
           positions == [i \in 1..Len(bal.Y) |-> i]
       IN IF bal.balance_type = "OVER"
          THEN bal' = [bal EXCEPT !.status = "loop",
                                  !.ref_set = FindMax(label_set, bal.Y, <<>>),
                                  !.todo = label_set,
                                  !.X_balanced = positions,
                                  !.Y_balanced = bal.Y]
          ELSE LET min_set == FindMin(label_set, bal.Y, <<>>)
                   yl == where(bal.Y, min_set[1])
               IN bal' = [bal EXCEPT !.status = "loop",
                                     !.ref_set = min_set,
                                     !.todo = label_set,
                                     !.X_balanced = yl,
                                     !.Y_balanced = Take(bal.Y, yl)]
    /\ UNCHANGED <<decoderVars, daemonVars, slotVars, mock, ld, dpsd, ctor>>

\* one pass of the second loop, for the class c = todo[0]; after the last one
\* the function returns X_balanced, Y_balanced
BalanceClass ==
    /\ bal.status = "loop"
    /\ LET c == Head(bal.todo)
           yl == where(bal.Y, c)
           n == IF bal.balance_type = "OVER" THEN bal.ref_set[2] - Len(yl)
                                             ELSE bal.ref_set[2]
           status == IF Len(bal.todo) = 1 THEN "returned" ELSE "loop"
       IN IF c = bal.ref_set[1]
          THEN bal' = [bal EXCEPT !.status = status, !.todo = Tail(bal.todo)]
          ELSE \E idx \in Choice(yl, n) :
                  bal' = [bal EXCEPT !.status = status,
                                     !.todo = Tail(bal.todo),
                                     !.X_balanced = bal.X_balanced \o idx,
                                     !.Y_balanced = bal.Y_balanced \o Take(bal.Y, idx)]
    /\ UNCHANGED <<decoderVars, daemonVars, slotVars, mock, ld, dpsd, ctor>>

InitBalance ==
    /\ bal \in BalanceCalls
    /\ mock = NoMock
    /\ ld = NoLd
    /\ dpsd = NoPsdCall
    /\ ctor = NoCtor
    /\ buffer_sec = OneSecond
    /\ streamTs = 0
    /\ streamLeft = 0
    /\ dec = NewDecoder
    /\ NoDaemon
    /\ SlotIdle

NextBalance == BalanceBegin \/ BalanceClass

SpecBalance == InitBalance /\ [][NextBalance]_vars

(***************************************************************************)
(* C39: balance_samples equalises the class counts.  For every labelled    *)
(* sample set (each class that occurs has at least one sample): after      *)
(* 'OVER' every class has as many samples as the largest class had and     *)
(* every original sample is still present; after 'UNDER' every class has   *)
(* as many samples as the smallest class had and every output sample is    *)
(* one of the input samples of its class.                                  *)
(***************************************************************************)
Count(Y, c) == Len(where(Y, c))
ClassesOf(Y) == {Y[i] : i \in 1..Len(Y)}
Largest(Y) == CHOOSE n \in 0..Len(Y) :
                 /\ \E c \in ClassesOf(Y) : Count(Y, c) = n
                 /\ \A c \in ClassesOf(Y) : Count(Y, c) <= n
Smallest(Y) == CHOOSE n \in 0..Len(Y) :
                  /\ \E c \in ClassesOf(Y) : Count(Y, c) = n
                  /\ \A c \in ClassesOf(Y) : Count(Y, c) >= n

\* every output sample is an input sample, under that sample's label
OutputFromInput ==
    /\ Len(bal.X_balanced) = Len(bal.Y_balanced)
    /\ \A k \in 1..Len(bal.X_balanced) :
          /\ bal.X_balanced[k] \in 1..Len(bal.Y)
          /\ bal.Y_balanced[k] = bal.Y[bal.X_balanced[k]]

C39_BalanceEqualisesCounts ==
    bal.status = "returned" =>
        /\ OutputFromInput
        /\ bal.balance_type = "OVER" =>
              /\ \A c \in ClassesOf(bal.Y) : Count(bal.Y_balanced, c) = Largest(bal.Y)
              /\ \A i \in 1..Len(bal.Y) : \E k \in 1..Len(bal.X_balanced) : bal.X_balanced[k] = i
        /\ bal.balance_type = "UNDER" =>
              /\ \A c \in ClassesOf(bal.Y) : Count(bal.Y_balanced, c) = Smallest(bal.Y)

\* 'UNDER' on five samples of three classes, the smallest of one sample,
\* returned one sample of each class
C39_Witness ==
    /\ bal.status = "returned"
    /\ bal.balance_type = "UNDER"
    /\ Len(bal.Y) = 5
    /\ Cardinality(ClassesOf(bal.Y)) = 3
    /\ Len(bal.Y_balanced) = 3

====
